---------------------------- MODULE Spec2Model ----------------------------
(***************************************************************************)
(* Verification model of the void-desk back-end core (src-tauri):          *)
(*   - the path sandbox of the file tools   (commands/ai_tools.rs)         *)
(*   - the SSE stream parser                (sdk/stream/parse.rs)          *)
(*   - the streaming agent loop             (sdk/agent.rs)                 *)
(* Each subsystem has its own specification (SpecPath, SpecSse, SpecFrame, *)
(* SpecAgent); a specification holds the variables of the other subsystems *)
(* at their idle value.                                                    *)
(***************************************************************************)
EXTENDS Integers, Sequences, FiniteSets, TLC

VARIABLES
    p_root,        \* path sandbox: the `root` argument
    p_target,      \* path sandbox: the `target` argument
    p_result,      \* path sandbox: the Result<PathBuf> returned, or "none"
    p_pc,          \* path sandbox: "call" before the call, "ret" after it
    debug_raw,     \* SSE parser: the debug_raw argument
    accumulators,  \* SSE parser: HashMap<String, ToolCallAccumulator>
    saw_finish,    \* SSE parser: a finish signal has been handled
    s_events,      \* SSE parser: the StreamEvents yielded so far, in order
    s_lines,       \* SSE parser: the input consumed so far, in order
    s_pc,          \* SSE parser: "open" while the byte stream yields items
    f_wire,        \* SSE framing: the bytes the provider sends, in order
    f_pos,         \* SSE framing: how many of them have been delivered
    buffer,        \* SSE framing: the parser's line buffer (decoded text)
    max_iterations,  \* agent: Agent.max_iterations
    history,         \* agent: the history argument of the run
    iteration,       \* agent: the loop variable of `for iteration in ..`
    messages,        \* agent: the run's message vector
    assistant_text,  \* agent: text accumulated in this iteration
    tool_calls,      \* agent: tool calls received in this iteration
    saw_output,      \* agent: this iteration saw text or a tool call
    stream_done,     \* agent: the provider stream has yielded Done
    tool_idx,        \* agent: position in the loop over tool_calls
    a_pc,            \* agent: where the background task stands
    a_events,        \* agent: the items sent on the channel, in order
    requests,        \* agent: provider requests issued so far
    received,        \* agent: StreamEvents taken from provider streams
    turns,           \* agent: per finished stream, what it delivered
    tool_outcome,    \* agent: how the last tool execution ended
    streaming,       \* agent: run_streaming (TRUE) or run (FALSE)
    a_result,        \* agent: what Agent::run returned (NoResult before)
    rx_dropped_at,   \* agent: -1 while the consumer holds the receiver,
                     \*        else the number of items sent before it
                     \*        dropped the receiver
    rpc_op,          \* RPC: the streaming operation invoked
    rpc_pc,          \* RPC: the stage the operation has reached
    rpc_chunks,      \* RPC: the chunks delivered on on_event, in order
    rpc_return,      \* RPC: "none" while running, then "Ok" or "Err"
    rpc_failed,      \* RPC: the failure that ended the operation, or "none"
    rpc_items,       \* RPC: runner events taken from the stream
    on_event_open,   \* RPC: the front end still holds the channel
    e_content,       \* edit: the file's content before the call
    e_edits,         \* edit: the edits listed in the request
    e_disk,          \* edit: the file's content on disk
    e_result,        \* edit: what Edit mode returned
    e_pc,            \* edit: "call" before the call, "ret" after it
    w_fs0,           \* write tools: the file system before the call
    w_fs,            \* write tools: the file system now
    w_root,          \* write tools: the tool's root_path (an Option)
    w_tool,          \* write tools: the tool that is run
    w_mode,          \* write tools: the mode argument of the edit tools
    w_target,        \* write tools: the path argument
    w_payload,       \* write tools: what content / edits the request has
    w_allow,         \* write tools: the allow_sensitive argument (Option)
    w_result,        \* write tools: the Result the tool returned
    w_pc,            \* write tools: "call" before the call, "ret" after
    sessions,        \* sessions: the store, session id -> Session
    user_sessions,   \* sessions: AIService.user_sessions, user -> id
    next_uuid,       \* sessions: how many ids the store has generated
    clock,           \* sessions: the time of the latest creation
    svc_calls,       \* sessions: per caller, the call it is executing
    resets,          \* sessions: reset_session calls made so far
    last_reset,      \* sessions: per user, what its last reset_session saw
    w_again,         \* write tools: the Result of running the call again
    r_content,       \* read_file: the characters of the file that is read
    r_start,         \* read_file: the start_line argument (an Option)
    r_end,           \* read_file: the end_line argument (an Option)
    r_result,        \* read_file: what the run returned
    r_pc,            \* read_file: "call" before the call, "ret" after
    ic_content,      \* inline completion: the characters of `content`
    ic_cursor,       \* inline completion: cursor_pos
    ic_api_key,      \* inline completion: the api_key argument
    ic_result,       \* inline completion: the prompt parts, or how it ended
    ic_pc,           \* inline completion: "call" before, "ret" after
    chat_store,      \* chat sessions: CHAT_SESSIONS, id -> the state "name"
    chat_uuid,       \* chat sessions: how many ids the service generated
    chat_ret,        \* chat sessions: the command that returned last
    chat_asked,      \* chat sessions: id -> the name the front end gave
                     \* last, through create or an ok rename (history)
    chat_renames,    \* chat sessions: rename commands made so far
    h_pc,            \* turn handler: "stream" while it forwards the turn's
                     \* events, "done" / "error" once it saw the last one
    p_taken,         \* piped stream: parser events the agent has received
    cmp_script,      \* run / run_streaming: the model's turns, one per request
    cmp_max,         \* run / run_streaming: max_iterations
    cmp_run,         \* run / run_streaming: what Agent::run returned
    cmp_stream,      \* run / run_streaming: the terminal item of the stream
    cmp_pc,          \* run / run_streaming: "call", "ran", "ret"
    lk_holder,       \* session store: the task holding the write guard of
                     \* `sessions`, or "none"
    lk_msgs,         \* session store: the messages of the one session
    lk_tasks,        \* session store: per task its call and how far it is
    lk_order,        \* session store: the tasks in the order in which they
                     \* got the write guard (history)
    ai_store,        \* session turns: AI_SERVICE's session_service, id ->
                     \* the events of the session
    ask_ret,         \* session turns: the last ask_ai_stream_with_session:
                     \* its id and the history its run started from
    asks,            \* session turns: how many were made
    ch_sent,         \* event channel: how many of the task's sends (a_events)
                     \* the channel has accepted
    ch_queue,        \* event channel: the events it holds
    ch_received,     \* event channel: the events the consumer has taken
    doc_versions,    \* LSP manager: doc_versions, path -> version
    lsp_calls,       \* LSP manager: per command task its call, how far it
                     \* is and the version it took
    lsp_wire         \* LSP manager: the notifications written to the
                     \* server's stdin, in order

pathVars == <<p_root, p_target, p_result, p_pc>>
sseVars == <<debug_raw, accumulators, saw_finish, s_events, s_lines, s_pc>>
frameVars == <<f_wire, f_pos, buffer>>
agentVars == <<max_iterations, history, iteration, messages, assistant_text,
               tool_calls, saw_output, stream_done, tool_idx, a_pc,
               a_events, requests, received, turns, tool_outcome,
               streaming, a_result, rx_dropped_at>>
rpcVars == <<rpc_op, rpc_pc, rpc_chunks, rpc_return, rpc_failed, rpc_items,
             on_event_open>>
editVars == <<e_content, e_edits, e_disk, e_result, e_pc>>
writeVars == <<w_fs0, w_fs, w_root, w_tool, w_mode, w_target, w_payload,
               w_allow, w_result, w_pc>>
sessVars == <<sessions, user_sessions, next_uuid, clock, svc_calls, resets,
              last_reset>>
readVars == <<r_content, r_start, r_end, r_result, r_pc>>
inlineVars == <<ic_content, ic_cursor, ic_api_key, ic_result, ic_pc>>
chatVars == <<chat_store, chat_uuid, chat_ret, chat_asked, chat_renames>>
turnVars == <<h_pc, p_taken>>
cmpVars == <<cmp_script, cmp_max, cmp_run, cmp_stream, cmp_pc>>
lockVars == <<lk_holder, lk_msgs, lk_tasks, lk_order>>
askVars == <<ai_store, ask_ret, asks>>
chanVars == <<ch_sent, ch_queue, ch_received>>
lspVars == <<doc_versions, lsp_calls, lsp_wire>>
aux2Vars == <<cmpVars, lockVars, askVars, chanVars, lspVars>>
auxVars == <<w_again, readVars, inlineVars, chatVars, turnVars, aux2Vars>>
extVars == <<rpcVars, editVars, writeVars, sessVars, auxVars>>

vars == <<p_root, p_target, p_result, p_pc,
          debug_raw, accumulators, saw_finish, s_events, s_lines, s_pc,
          f_wire, f_pos, buffer,
          max_iterations, history, iteration, messages, assistant_text,
          tool_calls, saw_output, stream_done, tool_idx, a_pc,
          a_events, requests, received, turns, tool_outcome,
          streaming, a_result, rx_dropped_at,
          extVars>>

(***************************************************************************)
(* Generic helpers.                                                        *)
(***************************************************************************)
SeqsUpTo(S, n) == UNION {[1..k -> S] : k \in 0..n}

IsPrefix(s, t) == Len(s) <= Len(t) /\ SubSeq(t, 1, Len(s)) = s

(***************************************************************************)
(* PATH SANDBOX  (commands/ai_tools.rs, resolve_and_validate_path)         *)
(*                                                                         *)
(* A path is [abs, comps]: whether it starts at the file-system root, and  *)
(* its components as std::path::Path::components yields them: names and    *)
(* the parent-dir component "..", which components() does not resolve.     *)
(***************************************************************************)
MaxDepth == 3

ParentDir == ".."

\* The file system the tools run against: directories, regular files and
\* one symbolic link that sits inside the project and points out of it.
FsDirs == {<<>>, <<"proj">>, <<"proj", "sub">>, <<"etc">>}
FsFiles == {<<"proj", "a">>, <<"etc", "passwd">>}
FsLinks == (<<"proj", "link">> :> <<"etc">>)

PathNames == {"proj", "sub", "etc", "a", "link", "new"}
Components == PathNames \cup {ParentDir}

NoEnt == <<"<ENOENT>">>

Parent(loc) == IF loc = <<>> THEN <<>> ELSE SubSeq(loc, 1, Len(loc) - 1)

\* A file system: its directories, its regular files with their content,
\* and its symbolic links with their targets.
FileSystem(dirs, files, links) ==
    [dirs |-> dirs, files |-> files, links |-> links]

Fs0 == FileSystem(FsDirs, [loc \in FsFiles |-> "old"], FsLinks)

\* Path resolution as the operating system performs it for stat/realpath:
\* every component must exist, ".." moves to the parent of the directory
\* reached so far, a symbolic link is followed.
RECURSIVE WalkIn(_, _, _)
WalkIn(fs, cur, comps) ==
    IF comps = <<>> THEN cur
    ELSE IF cur \notin fs.dirs THEN NoEnt
    ELSE IF Head(comps) = ParentDir
    THEN WalkIn(fs, Parent(cur), Tail(comps))
    ELSE LET nxt == Append(cur, Head(comps)) IN
         IF nxt \in DOMAIN fs.links
         THEN WalkIn(fs, fs.links[nxt], Tail(comps))
         ELSE IF nxt \in fs.dirs \cup DOMAIN fs.files
         THEN WalkIn(fs, nxt, Tail(comps))
         ELSE NoEnt

Walk(cur, comps) == WalkIn(Fs0, cur, comps)

\* Path::canonicalize of an absolute path: Err (NoEnt) unless it exists.
CanonicalizeIn(fs, comps) == WalkIn(fs, <<>>, comps)
Canonicalize(comps) == CanonicalizeIn(Fs0, comps)

\* Path::exists of an absolute path (follows links).
ExistsIn(fs, comps) == WalkIn(fs, <<>>, comps) # NoEnt
Exists(comps) == ExistsIn(Fs0, comps)

\* Path::starts_with: a comparison of whole components, nothing resolved.
StartsWith(comps, base) == IsPrefix(base, comps)

\* fn resolve_and_validate_path(root, target) -> Result<PathBuf>, run
\* against the file system fs.
ResolveAndValidateIn(fs, root, target) ==
    LET root_path == CanonicalizeIn(fs, root) IN
    IF root_path = NoEnt
    THEN [ok |-> FALSE, path |-> <<>>, err |-> "Invalid project root"]
    ELSE IF ~target.abs /\ \E i \in 1..Len(target.comps) :
                                target.comps[i] = ParentDir
    THEN [ok |-> FALSE, path |-> <<>>, err |-> "not a safe relative path"]
    ELSE LET target_path == IF target.abs THEN target.comps
                            ELSE root_path \o target.comps
         IN
         IF ExistsIn(fs, target_path)
         THEN IF StartsWith(CanonicalizeIn(fs, target_path), root_path)
              THEN [ok |-> TRUE, path |-> CanonicalizeIn(fs, target_path),
                    err |-> ""]
              ELSE [ok |-> FALSE, path |-> <<>>,
                    err |-> "outside the project root"]
         ELSE IF StartsWith(target_path, root_path)
              THEN [ok |-> TRUE, path |-> target_path, err |-> ""]
              ELSE [ok |-> FALSE, path |-> <<>>,
                    err |-> "outside the project root"]

resolve_and_validate_path(root, target) ==
    ResolveAndValidateIn(Fs0, root, target)

\* The file-system location an absolute path denotes when a tool opens or
\* creates it (fs::create_dir_all on the parent, then fs::write): existing
\* components resolve as in Walk, a missing component is created in place.
RECURSIVE Locate(_, _)
Locate(cur, comps) ==
    IF comps = <<>> THEN cur
    ELSE IF Head(comps) = ParentDir THEN Locate(Parent(cur), Tail(comps))
    ELSE LET nxt == Append(cur, Head(comps)) IN
         IF nxt \in DOMAIN FsLinks THEN Locate(FsLinks[nxt], Tail(comps))
         ELSE Locate(nxt, Tail(comps))

Roots == {<<"proj">>, <<"proj", "sub">>, <<"proj", "link">>, <<"gone">>}
Targets == [abs : BOOLEAN, comps : SeqsUpTo(Components, MaxDepth)]

PathIdle ==
    /\ p_root = <<>>
    /\ p_target = [abs |-> FALSE, comps |-> <<>>]
    /\ p_result = "none"
    /\ p_pc = "idle"

PathInit ==
    /\ p_root \in Roots
    /\ p_target \in Targets
    /\ p_result = "none"
    /\ p_pc = "call"

\* A file tool calls resolve_and_validate_path(root, path).
ResolvePath ==
    /\ p_pc = "call"
    /\ p_result' = resolve_and_validate_path(p_root, p_target)
    /\ p_pc' = "ret"
    /\ UNCHANGED <<p_root, p_target>>
    /\ UNCHANGED <<sseVars, frameVars, agentVars, extVars>>

(***************************************************************************)
(* SSE PARSER  (sdk/stream/parse.rs, parse_sse_stream_with_debug)          *)
(*                                                                         *)
(* The input is taken after framing: one item per non-empty line of the    *)
(* byte stream (or per failed read).  A data payload is the decoded        *)
(* ResponseStreamResult: its choices, each with a delta, a message and a   *)
(* finish_reason; an absent Option<String> is the empty string, as         *)
(* unwrap_or_default makes it.                                             *)
(***************************************************************************)
MaxLines == 3

NoDelta == [content |-> "", text |-> "", reasoning |-> "",
            reasoning_content |-> "", tool_calls |-> <<>>]
NoMessage == [text |-> "", tool_calls |-> <<>>]

\* ToolCallChunk values of delta.tool_calls (index, id, function.name,
\* function.arguments).
ChunkHead1 == [index |-> 0, id |-> "c1", name |-> "f", arguments |-> ""]
ChunkHead2 == [index |-> 1, id |-> "c2", name |-> "g", arguments |-> "b"]
ChunkFragA == [index |-> 0, id |-> "", name |-> "", arguments |-> "a"]
ChunkFragB == [index |-> 0, id |-> "", name |-> "", arguments |-> "b"]
ChunkAnon0 == [index |-> 0, id |-> "", name |-> "f", arguments |-> "a"]
ChunkAnon1 == [index |-> 1, id |-> "", name |-> "g", arguments |-> "b"]
Chunks == {ChunkHead1, ChunkHead2, ChunkFragA, ChunkFragB, ChunkAnon0,
           ChunkAnon1}

\* ToolCall values of a terminal message.tool_calls.
MsgCall1 == [id |-> "c1", name |-> "f", arguments |-> "a"]
MsgCall0 == [id |-> "", name |-> "f", arguments |-> "a"]

TextChoice(t, fin) ==
    [delta |-> [NoDelta EXCEPT !.content = t], message |-> NoMessage,
     finish_reason |-> fin]
ChunkChoice(c) ==
    [delta |-> [NoDelta EXCEPT !.tool_calls = <<c>>], message |-> NoMessage,
     finish_reason |-> FALSE]
MessageChoice(t, call) ==
    [delta |-> NoDelta, message |-> [text |-> t, tool_calls |-> <<call>>],
     finish_reason |-> FALSE]
FinishChoice == [delta |-> NoDelta, message |-> NoMessage,
                 finish_reason |-> TRUE]

DataLine(raw, choices) == [kind |-> "data", raw |-> raw, choices |-> choices]

\* "done": the [DONE] sentinel; "bad": a payload serde_json rejects;
\* "error": a payload with an error field; "other": a line that is no data
\* line; "io": the byte stream yields Err instead of a chunk.
DoneLine == [kind |-> "done", raw |-> "[DONE]", choices |-> <<>>]
BadLine == [kind |-> "bad", raw |-> "{oops", choices |-> <<>>]
ErrorLine == [kind |-> "error", raw |-> "{error}",
              choices |-> <<FinishChoice>>]
OtherLine == [kind |-> "other", raw |-> ": ping", choices |-> <<>>]
IoError == [kind |-> "io", raw |-> "", choices |-> <<>>]

Lines ==
    {DoneLine, BadLine, ErrorLine, OtherLine, IoError,
     DataLine("{text}", <<TextChoice("Hi", FALSE)>>),
     DataLine("{text,stop}", <<TextChoice("Hi", TRUE)>>),
     DataLine("{stop}", <<FinishChoice>>),
     DataLine("{stop;text}", <<FinishChoice, TextChoice("Hi", FALSE)>>),
     DataLine("{msg c1}", <<MessageChoice("Msg", MsgCall1)>>),
     DataLine("{msg}", <<MessageChoice("", MsgCall0)>>)}
    \cup {DataLine("{chunk}", <<ChunkChoice(c)>>) : c \in Chunks}

\* StreamEvent (sdk/core/events.rs) and the Err item of the stream.
TextDelta(t) == [type |-> "TextDelta", id |-> "", name |-> "", text |-> t]
ToolCallEv(id, name, arguments) ==
    [type |-> "ToolCall", id |-> id, name |-> name, text |-> arguments]
RawEv(data) == [type |-> "Raw", id |-> "", name |-> "", text |-> data]
DoneEv == [type |-> "Done", id |-> "", name |-> "", text |-> ""]
ErrEv(msg) == [type |-> "Err", id |-> "", name |-> "", text |-> msg]

EmptyMap == [k \in {} |-> [id |-> "", name |-> "", arguments |-> ""]]

\* accumulators.entry(key).or_insert_with(..) followed by the three updates
\* of the entry (parse.rs 167-181 and 199-213).
MergeInto(acc, key, id, name, arguments) ==
    LET entry == IF key \in DOMAIN acc THEN acc[key]
                 ELSE [id |-> id, name |-> name, arguments |-> ""]
        merged == [id |-> IF id # "" THEN id ELSE entry.id,
                   name |-> IF name # "" THEN name ELSE entry.name,
                   arguments |-> IF arguments # ""
                                 THEN entry.arguments \o arguments
                                 ELSE entry.arguments]
    IN (key :> merged) @@ acc

ChunkKey(c) == IF c.id # "" THEN c.id ELSE "index:" \o ToString(c.index)

RECURSIVE accumulate_tool_call_chunks(_, _)
accumulate_tool_call_chunks(calls, acc) ==
    IF calls = <<>> THEN acc
    ELSE LET c == Head(calls) IN
         accumulate_tool_call_chunks(Tail(calls),
             MergeInto(acc, ChunkKey(c), c.id, c.name, c.arguments))

MessageKey(c) == IF c.id # "" THEN c.id ELSE "name:" \o c.name

RECURSIVE accumulate_tool_call_messages(_, _)
accumulate_tool_call_messages(calls, acc) ==
    IF calls = <<>> THEN acc
    ELSE LET c == Head(calls) IN
         accumulate_tool_call_messages(Tail(calls),
             MergeInto(acc, MessageKey(c), c.id, c.name, c.arguments))

\* The orders in which HashMap::values() may visit the accumulators: the
\* map is a std HashMap with a per-process random hasher.
IterationOrders(acc) ==
    {o \in [1..Cardinality(DOMAIN acc) -> DOMAIN acc] :
        \A i, j \in DOMAIN o : o[i] = o[j] => i = j}

RECURSIVE FlushedCalls(_, _)
FlushedCalls(acc, order) ==
    IF order = <<>> THEN <<>>
    ELSE LET a == acc[Head(order)] IN
         (IF a.name # "" THEN <<ToolCallEv(a.id, a.name, a.arguments)>>
          ELSE <<>>) \o FlushedCalls(acc, Tail(order))

\* The parser state threaded through one line: [acc, saw, ev].
\* fn flush_tool_calls followed by the Done push (parse.rs 61-63, 126-128).
flush_tool_calls(st, order) ==
    [acc |-> EmptyMap, saw |-> st.saw,
     ev |-> st.ev \o FlushedCalls(st.acc, order)]

\* Mutant: Done is pushed before the accumulated tool calls are flushed.
FinishOnce_DoneFirst(st, order) ==
    IF st.saw THEN st
    ELSE LET f == flush_tool_calls([st EXCEPT !.ev = Append(st.ev, DoneEv)],
                                   order)
         IN [acc |-> f.acc, saw |-> TRUE, ev |-> f.ev]

\* Mutant: every finish signal flushes and pushes Done.
FinishOnce_EveryTime(st, order) ==
    LET f == flush_tool_calls(st, order) IN
    [acc |-> f.acc, saw |-> TRUE, ev |-> Append(f.ev, DoneEv)]

FinishOnce(st, order) ==
    IF st.saw THEN st
    ELSE LET f == flush_tool_calls(st, order) IN
         [acc |-> f.acc, saw |-> TRUE, ev |-> Append(f.ev, DoneEv)]

NonEmptyText(t) == IF t # "" THEN <<TextDelta(t)>> ELSE <<>>

\* One choice of a payload (parse.rs 88-130).
HandleChoice(st, choice, order) ==
    LET d == choice.delta
        m == choice.message
        afterDelta ==
            [acc |-> accumulate_tool_call_chunks(d.tool_calls, st.acc),
             saw |-> st.saw,
             ev |-> st.ev \o NonEmptyText(d.content) \o NonEmptyText(d.text)
                      \o NonEmptyText(d.reasoning)
                      \o NonEmptyText(d.reasoning_content)]
        afterMessage ==
            [acc |-> accumulate_tool_call_messages(m.tool_calls,
                                                   afterDelta.acc),
             saw |-> afterDelta.saw,
             ev |-> afterDelta.ev \o NonEmptyText(m.text)]
    IN IF choice.finish_reason THEN FinishOnce(afterMessage, order)
       ELSE afterMessage

RECURSIVE HandleChoices(_, _, _)
HandleChoices(st, choices, order) ==
    IF choices = <<>> THEN st
    ELSE HandleChoices(HandleChoice(st, Head(choices), order),
                       Tail(choices), order)

WithRaw(st, line, dbg) ==
    IF dbg THEN [st EXCEPT !.ev = Append(st.ev, RawEv(line.raw))] ELSE st

\* One item of the byte stream (parse.rs 32-137).
HandleLine(st, line, dbg, order) ==
    CASE line.kind = "io" ->
            [st EXCEPT !.ev = Append(st.ev, ErrEv("Stream error: io"))]
      [] line.kind = "other" -> st
      [] line.kind = "done" -> FinishOnce(WithRaw(st, line, dbg), order)
      [] line.kind = "bad" ->
            LET r == WithRaw(st, line, dbg) IN
            [r EXCEPT !.ev = Append(r.ev,
                                    ErrEv("Failed to parse SSE json"))]
      [] line.kind = "error" ->
            LET r == WithRaw(st, line, dbg) IN
            [r EXCEPT !.ev = Append(r.ev, ErrEv("Stream error: provider"))]
      [] line.kind = "data" ->
            HandleChoices(WithRaw(st, line, dbg), line.choices, order)

SseIdle ==
    /\ debug_raw = FALSE
    /\ accumulators = EmptyMap
    /\ saw_finish = FALSE
    /\ s_events = <<>>
    /\ s_lines = <<>>
    /\ s_pc = "idle"

SseInit ==
    /\ debug_raw \in BOOLEAN
    /\ accumulators = EmptyMap
    /\ saw_finish = FALSE
    /\ s_events = <<>>
    /\ s_lines = <<>>
    /\ s_pc = "open"

\* The byte stream yields its next item and the flat_map closure runs on it.
SseLine ==
    /\ s_pc = "open"
    /\ Len(s_lines) < MaxLines
    /\ \E line \in Lines : \E order \in IterationOrders(accumulators) :
         LET st == HandleLine([acc |-> accumulators, saw |-> saw_finish,
                               ev |-> s_events], line, debug_raw, order)
         IN /\ accumulators' = st.acc
            /\ saw_finish' = st.saw
            /\ s_events' = st.ev
            /\ s_lines' = Append(s_lines, line)
    /\ UNCHANGED <<debug_raw, s_pc>>
    /\ UNCHANGED <<pathVars, frameVars, agentVars, extVars>>

\* The byte stream ends: the parsed stream ends with it, nothing is flushed.
SseEnd ==
    /\ s_pc = "open"
    /\ s_pc' = "closed"
    /\ UNCHANGED <<debug_raw, accumulators, saw_finish, s_events, s_lines>>
    /\ UNCHANGED <<pathVars, frameVars, agentVars, extVars>>

(***************************************************************************)
(* SSE FRAMING  (sdk/stream/parse.rs 29-66: bytes to data payloads)        *)
(*                                                                         *)
(* The byte stream is a sequence of bytes delivered in chunks.  The bytes  *)
(* are written over a small alphabet: the ASCII strings `data:` and        *)
(* `[DONE]` (each taken as a unit), space, the ASCII letter a, LF, CR, and *)
(* the two bytes C3 A9 that encode U+00E9 in UTF-8.  A payload is written  *)
(* by the characters of the text it carries; the ASCII JSON envelope       *)
(* around them is not written out.                                         *)
(***************************************************************************)
MaxBytes == 4

Bytes == {"data:", "[DONE]", " ", "a", "LF", "CR", "C3", "A9"}
Replacement == "U+FFFD"
EAcute == "U+00E9"
Whitespace == {" ", "CR", "LF"}

\* String::from_utf8_lossy on one chunk: an incomplete or stray byte of a
\* multi-byte sequence becomes U+FFFD.
RECURSIVE from_utf8_lossy(_)
from_utf8_lossy(bytes) ==
    IF bytes = <<>> THEN <<>>
    ELSE IF Head(bytes) = "C3"
    THEN IF Len(bytes) >= 2 /\ bytes[2] = "A9"
         THEN <<EAcute>> \o from_utf8_lossy(SubSeq(bytes, 3, Len(bytes)))
         ELSE <<Replacement>> \o from_utf8_lossy(Tail(bytes))
    ELSE IF Head(bytes) = "A9"
    THEN <<Replacement>> \o from_utf8_lossy(Tail(bytes))
    ELSE <<Head(bytes)>> \o from_utf8_lossy(Tail(bytes))

\* str::replace("\r\n", "\n")
RECURSIVE ReplaceCrLf(_)
ReplaceCrLf(chars) ==
    IF chars = <<>> THEN <<>>
    ELSE IF Len(chars) >= 2 /\ chars[1] = "CR" /\ chars[2] = "LF"
    THEN <<"LF">> \o ReplaceCrLf(SubSeq(chars, 3, Len(chars)))
    ELSE <<Head(chars)>> \o ReplaceCrLf(Tail(chars))

RECURSIVE trim_end(_)
trim_end(chars) ==
    IF chars # <<>> /\ chars[Len(chars)] \in Whitespace
    THEN trim_end(SubSeq(chars, 1, Len(chars) - 1))
    ELSE chars

RECURSIVE trim_start(_)
trim_start(chars) ==
    IF chars # <<>> /\ Head(chars) \in Whitespace
    THEN trim_start(Tail(chars))
    ELSE chars

RECURSIVE Join(_)
Join(chars) == IF chars = <<>> THEN "" ELSE Head(chars) \o Join(Tail(chars))

\* The payload of a line: strip_prefix("data: "), else strip_prefix("data:")
\* and trim_start; <<>> for a line that is no data line or has no payload.
DataOf(line) ==
    IF Len(line) >= 2 /\ line[1] = "data:" /\ line[2] = " "
    THEN SubSeq(line, 3, Len(line))
    ELSE IF Len(line) >= 1 /\ line[1] = "data:"
    THEN trim_start(Tail(line))
    ELSE <<>>

\* What the payload is to the parser: the sentinel, a payload serde_json
\* decodes (a delta with the payload's characters as content), or one it
\* rejects.
Decode(data) ==
    IF data = <<"[DONE]">> THEN DoneLine
    ELSE IF \E i \in DOMAIN data : data[i] \in {"data:", "[DONE]"}
    THEN [BadLine EXCEPT !.raw = Join(data)]
    ELSE DataLine(Join(data), <<TextChoice(Join(trim_end(trim_start(data))),
                                           FALSE)>>)

FirstLf(chars) == CHOOSE i \in DOMAIN chars :
                      chars[i] = "LF" /\ \A j \in 1..(i - 1) : chars[j] # "LF"

\* while let Some(pos) = buffer.find('\n') { .. }   (parse.rs 37-132);
\* fs is [buf, st, lines].
RECURSIVE DrainLines(_, _, _)
DrainLines(fs, dbg, order) ==
    IF \A i \in DOMAIN fs.buf : fs.buf[i] # "LF" THEN fs
    ELSE LET pos == FirstLf(fs.buf)
             line == trim_end(SubSeq(fs.buf, 1, pos - 1))
             rest == SubSeq(fs.buf, pos + 1, Len(fs.buf))
             data == DataOf(line)
         IN IF data = <<>>
            THEN DrainLines([fs EXCEPT !.buf = rest], dbg, order)
            ELSE DrainLines(
                   [buf |-> rest,
                    st |-> HandleLine(fs.st, Decode(data), dbg, order),
                    lines |-> Append(fs.lines, Decode(data))], dbg, order)

\* The flat_map closure on Ok(chunk)   (parse.rs 33-133).
HandleChunk(fs, chunk, dbg, order) ==
    DrainLines([fs EXCEPT !.buf = fs.buf \o
                                  ReplaceCrLf(from_utf8_lossy(chunk))],
               dbg, order)

ParserStart == [buf |-> <<>>,
                st |-> [acc |-> EmptyMap, saw |-> FALSE, ev |-> <<>>],
                lines |-> <<>>]

FrameIdle ==
    /\ f_wire = <<>>
    /\ f_pos = 0
    /\ buffer = <<>>

FrameInit ==
    /\ f_wire \in SeqsUpTo(Bytes, MaxBytes)
    /\ f_pos = 0
    /\ buffer = <<>>

\* The byte stream yields its next chunk, of n bytes.
FrameChunk ==
    /\ s_pc = "open"
    /\ \E n \in 1..(Len(f_wire) - f_pos) :
       \E order \in IterationOrders(accumulators) :
         LET fs == HandleChunk(
                     [buf |-> buffer,
                      st |-> [acc |-> accumulators, saw |-> saw_finish,
                              ev |-> s_events],
                      lines |-> s_lines],
                     SubSeq(f_wire, f_pos + 1, f_pos + n), debug_raw, order)
         IN /\ buffer' = fs.buf
            /\ accumulators' = fs.st.acc
            /\ saw_finish' = fs.st.saw
            /\ s_events' = fs.st.ev
            /\ s_lines' = fs.lines
            /\ f_pos' = f_pos + n
    /\ UNCHANGED <<debug_raw, s_pc, f_wire>>
    /\ UNCHANGED <<pathVars, agentVars, extVars>>

\* The byte stream ends after its last byte.
FrameEnd ==
    /\ s_pc = "open"
    /\ f_pos = Len(f_wire)
    /\ s_pc' = "closed"
    /\ UNCHANGED <<debug_raw, accumulators, saw_finish, s_events, s_lines>>
    /\ UNCHANGED <<f_wire, f_pos, buffer>>
    /\ UNCHANGED <<pathVars, agentVars, extVars>>

(***************************************************************************)
(* AGENT  (sdk/agent.rs, Agent::run_streaming_with_debug)                  *)
(*                                                                         *)
(* The background task of one streaming run.  The provider stream is the   *)
(* SSE parser's output: any sequence of StreamEvents the parser can yield  *)
(* (at most one Done, tool calls only before it, a non-empty id at most    *)
(* once per stream, an empty id any number of times).                      *)
(***************************************************************************)
MaxIterations == 2
MaxReceived == 4

\* Option<T>: <<>> is None, <<v>> is Some(v).
None == <<>>
Some(v) == <<v>>

\* Message constructors (sdk/core/types.rs 89-134).
MessageUser(text) ==
    [role |-> "user", content |-> Some(text), tool_calls |-> None,
     tool_call_id |-> None]
MessageAssistantText(text) ==
    [role |-> "assistant",
     content |-> IF text = "" THEN None ELSE Some(text),
     tool_calls |-> None, tool_call_id |-> None]
MessageAssistantWithToolCalls(content, calls) ==
    [role |-> "assistant", content |-> content,
     tool_calls |-> IF calls = <<>> THEN None ELSE Some(calls),
     tool_call_id |-> None]
\* Mutant: the tool message carries no tool_call_id.
MessageToolResult_NoId(id, content) ==
    [role |-> "tool", content |-> Some(content), tool_calls |-> None,
     tool_call_id |-> None]
MessageToolResult(id, content) ==
    [role |-> "tool", content |-> Some(content), tool_calls |-> None,
     tool_call_id |-> Some(id)]

\* ToolCall::new (types.rs 70-76).
NewToolCall(id, name, arguments) ==
    [id |-> id, kind |-> "function", name |-> name, arguments |-> arguments]

\* The tools of the registry, and what a model may ask for.
Registered == {"read_file"}
ValidJson == {"{}"}
StreamToolCalls ==
    {ToolCallEv("c1", "read_file", "{}"), ToolCallEv("c2", "ghost", "{}"),
     ToolCallEv("", "read_file", "{}")}
ToolAnswers == {[ok |-> TRUE, text |-> "out"],
                [ok |-> FALSE, text |-> "Access denied"]}

\* Histories a caller passes in: empty, or an earlier turn with a tool call.
Histories ==
    {<<>>,
     <<MessageUser("old"),
       MessageAssistantWithToolCalls(None,
                                     <<NewToolCall("c9", "read_file", "{}")>>),
       MessageToolResult("c9", "out"),
       MessageAssistantText("ok")>>}

\* AgentEvent and the Err item of the channel.
AgTextDelta(t) ==
    [type |-> "TextDelta", name |-> "", text |-> t, success |-> TRUE,
     messages |-> <<>>]
AgToolStart(name, input) ==
    [type |-> "ToolStart", name |-> name, text |-> input, success |-> TRUE,
     messages |-> <<>>]
AgToolResult(name, result, success) ==
    [type |-> "ToolResult", name |-> name, text |-> result,
     success |-> success, messages |-> <<>>]
AgDebug(raw) ==
    [type |-> "Debug", name |-> "", text |-> raw, success |-> TRUE,
     messages |-> <<>>]
AgDone(final_text, msgs) ==
    [type |-> "Done", name |-> "", text |-> final_text, success |-> TRUE,
     messages |-> msgs]
AgErr(msg) ==
    [type |-> "Err", name |-> "", text |-> msg, success |-> FALSE,
     messages |-> <<>>]

MaxIterationsError == "Max iterations reached without completion"

\* Result<AgentResult> of Agent::run; NoResult while it has not returned.
NoResult == [ok |-> FALSE, text |-> "", messages |-> <<>>]

\* serde_json::from_str(arguments), else Value::String(arguments)
\* (agent.rs 226-227).
DecodeInput(arguments) ==
    IF arguments \in ValidJson THEN [json |-> TRUE, value |-> arguments]
    ELSE [json |-> FALSE, value |-> arguments]

\* agent.tools.get(&name) and tool.run(input)   (agent.rs 237-243).
RunTool(name, answer) ==
    IF name \in Registered THEN answer
    ELSE [ok |-> FALSE, text |-> "Tool '" \o name \o "' not found"]

\* Mutant: a failed tool is reported as a success, with its bare message.
ResultText_Bare(result) == [text |-> result.text, success |-> TRUE]

\* (result_text, success)   (agent.rs 245-258).
ResultText(result) ==
    IF result.ok THEN [text |-> result.text, success |-> TRUE]
    ELSE [text |-> "Error: " \o result.text, success |-> FALSE]

AgentIdle ==
    /\ max_iterations = 0
    /\ history = <<>>
    /\ iteration = 0
    /\ messages = <<>>
    /\ assistant_text = ""
    /\ tool_calls = <<>>
    /\ saw_output = FALSE
    /\ stream_done = FALSE
    /\ tool_idx = 0
    /\ a_pc = "idle"
    /\ a_events = <<>>
    /\ requests = 0
    /\ received = 0
    /\ turns = <<>>
    /\ tool_outcome = "none"
    /\ streaming = FALSE
    /\ a_result = NoResult
    /\ rx_dropped_at = -1

\* The spawned task starts: messages = history + the user message
\* (agent.rs 144-145).
AgentInit ==
    /\ max_iterations \in 0..MaxIterations
    /\ history \in Histories
    /\ iteration = 0
    /\ messages = Append(history, MessageUser("ask"))
    /\ assistant_text = ""
    /\ tool_calls = <<>>
    /\ saw_output = FALSE
    /\ stream_done = FALSE
    /\ tool_idx = 0
    /\ a_pc = "iter"
    /\ a_events = <<>>
    /\ requests = 0
    /\ received = 0
    /\ turns = <<>>
    /\ tool_outcome = "none"
    /\ streaming \in BOOLEAN
    /\ a_result = NoResult
    /\ rx_dropped_at = -1

AgentFrame ==
    UNCHANGED <<pathVars, sseVars, frameVars, extVars, streaming,
                rx_dropped_at>>
StreamingFrame == AgentFrame /\ UNCHANGED a_result

\* Mutant: the loop runs once more than max_iterations.
LoopContinues_OneMore(i, max) == i <= max

\* for iteration in 0..agent.max_iterations   (agent.rs 148).
LoopContinues(i, max) == i < max

\* agent.client.stream_with_debug(request) returns a stream (agent.rs 150-164).
StreamOpen ==
    /\ a_pc = "iter" /\ streaming
    /\ LoopContinues(iteration, max_iterations)
    /\ requests' = requests + 1
    /\ assistant_text' = ""
    /\ tool_calls' = <<>>
    /\ saw_output' = FALSE
    /\ stream_done' = FALSE
    /\ a_pc' = "stream"
    /\ UNCHANGED <<max_iterations, history, iteration, messages, tool_idx,
                   a_events, received, turns, tool_outcome>>
    /\ StreamingFrame

\* agent.client.stream_with_debug(request) fails (agent.rs 155-159).
StreamOpenFails ==
    /\ a_pc = "iter" /\ streaming
    /\ LoopContinues(iteration, max_iterations)
    /\ requests' = requests + 1
    /\ a_events' = Append(a_events, AgErr("API error"))
    /\ turns' = Append(turns, [calls |-> 0, ok |-> FALSE])
    /\ a_pc' = "end"
    /\ UNCHANGED <<max_iterations, history, iteration, messages,
                   assistant_text, tool_calls, saw_output, stream_done,
                   tool_idx, received, tool_outcome>>
    /\ StreamingFrame

\* The loop is exhausted (agent.rs 274-279).
IterationsExhausted ==
    /\ a_pc = "iter" /\ streaming
    /\ ~LoopContinues(iteration, max_iterations)
    /\ a_events' = Append(a_events, AgErr(MaxIterationsError))
    /\ a_pc' = "end"
    /\ UNCHANGED <<max_iterations, history, iteration, messages,
                   assistant_text, tool_calls, saw_output, stream_done,
                   tool_idx, requests, received, turns, tool_outcome>>
    /\ StreamingFrame

CanReceive == a_pc = "stream" /\ received < MaxReceived

\* Mutant: the delta is put in front of the text collected so far.
RecvText_Prepend(texts) ==
    /\ CanReceive
    /\ \E text \in texts :
         IF text # ""
         THEN /\ saw_output' = TRUE
              /\ assistant_text' = text \o assistant_text
              /\ a_events' = Append(a_events, AgTextDelta(text))
         ELSE UNCHANGED <<saw_output, assistant_text, a_events>>
    /\ received' = received + 1
    /\ UNCHANGED <<max_iterations, history, iteration, messages, tool_calls,
                   stream_done, tool_idx, a_pc, requests, turns,
                   tool_outcome>>
    /\ StreamingFrame

\* Ok(StreamEvent::TextDelta(text)) for a text out of `texts`
\* (agent.rs 168-174).
RecvText(texts) ==
    /\ CanReceive
    /\ \E text \in texts :
         IF text # ""
         THEN /\ saw_output' = TRUE
              /\ assistant_text' = assistant_text \o text
              /\ a_events' = Append(a_events, AgTextDelta(text))
         ELSE UNCHANGED <<saw_output, assistant_text, a_events>>
    /\ received' = received + 1
    /\ UNCHANGED <<max_iterations, history, iteration, messages, tool_calls,
                   stream_done, tool_idx, a_pc, requests, turns,
                   tool_outcome>>
    /\ StreamingFrame

RecvTextDelta == RecvText({"Hi"})

\* Ok(StreamEvent::ToolCall { id, name, arguments })   (agent.rs 175-179).
RecvToolCall ==
    /\ CanReceive
    /\ ~stream_done
    /\ \E ev \in StreamToolCalls :
         /\ ev.id # "" =>
              \A i \in DOMAIN tool_calls : tool_calls[i].id # ev.id
         /\ saw_output' = TRUE
         /\ tool_calls' = Append(tool_calls,
                                 NewToolCall(ev.id, ev.name, ev.text))
    /\ received' = received + 1
    /\ UNCHANGED <<max_iterations, history, iteration, messages,
                   assistant_text, stream_done, tool_idx, a_pc, a_events,
                   requests, turns, tool_outcome>>
    /\ StreamingFrame

\* Ok(StreamEvent::Raw(raw))   (agent.rs 180-184).
RecvRaw ==
    /\ CanReceive
    /\ debug_raw
    /\ a_events' = Append(a_events, AgDebug("{raw}"))
    /\ received' = received + 1
    /\ UNCHANGED <<max_iterations, history, iteration, messages,
                   assistant_text, tool_calls, saw_output, stream_done,
                   tool_idx, a_pc, requests, turns, tool_outcome>>
    /\ StreamingFrame

\* Mutant: the error is forwarded but the task keeps reading the stream.
RecvErr_KeepsReading ==
    /\ CanReceive
    /\ a_events' = Append(a_events, AgErr("Stream error"))
    /\ received' = received + 1
    /\ UNCHANGED <<max_iterations, history, iteration, messages,
                   assistant_text, tool_calls, saw_output, stream_done,
                   tool_idx, requests, tool_outcome, turns, a_pc>>
    /\ StreamingFrame

\* Mutant: the error is forwarded and the loop goes on to its next
\* iteration.
RecvErr_NextIteration ==
    /\ CanReceive
    /\ a_events' = Append(a_events, AgErr("Stream error"))
    /\ turns' = Append(turns, [calls |-> Len(tool_calls), ok |-> FALSE])
    /\ received' = received + 1
    /\ iteration' = iteration + 1
    /\ a_pc' = "iter"
    /\ UNCHANGED <<max_iterations, history, messages, assistant_text,
                   tool_calls, saw_output, stream_done, tool_idx, requests,
                   tool_outcome>>
    /\ StreamingFrame

\* Err(err) from the stream   (agent.rs 196-200).
RecvErr ==
    /\ CanReceive
    /\ a_events' = Append(a_events, AgErr("Stream error"))
    /\ turns' = Append(turns, [calls |-> Len(tool_calls), ok |-> FALSE])
    /\ received' = received + 1
    /\ a_pc' = "end"
    /\ UNCHANGED <<max_iterations, history, iteration, messages,
                   assistant_text, tool_calls, saw_output, stream_done,
                   tool_idx, requests, tool_outcome>>
    /\ StreamingFrame

\* The code after the inner loop, up to its first send (agent.rs 204-223).
TurnOver ==
    /\ turns' = Append(turns, [calls |-> Len(tool_calls), ok |-> TRUE])
    /\ IF tool_calls = <<>>
       THEN /\ messages' = IF assistant_text # ""
                           THEN Append(messages,
                                       MessageAssistantText(assistant_text))
                           ELSE messages
            /\ a_events' = Append(a_events, AgDone(assistant_text, messages'))
            /\ a_pc' = "end"
            /\ UNCHANGED tool_idx
       ELSE /\ messages' = Append(messages,
                 MessageAssistantWithToolCalls(
                     IF assistant_text = "" THEN None
                     ELSE Some(assistant_text), tool_calls))
            /\ a_pc' = "tools"
            /\ tool_idx' = 1
            /\ UNCHANGED a_events

\* Ok(StreamEvent::Done)   (agent.rs 185-195): break once output was seen,
\* else keep reading.
RecvDone ==
    /\ CanReceive
    /\ ~stream_done
    /\ stream_done' = TRUE
    /\ received' = received + 1
    /\ IF saw_output THEN TurnOver
       ELSE UNCHANGED <<messages, a_events, a_pc, tool_idx, turns>>
    /\ UNCHANGED <<max_iterations, history, iteration, assistant_text,
                   tool_calls, saw_output, requests, tool_outcome>>
    /\ StreamingFrame

\* stream.next() yields None: the provider stream has ended.
StreamEnds ==
    /\ a_pc = "stream"
    /\ TurnOver
    /\ UNCHANGED <<max_iterations, history, iteration, assistant_text,
                   tool_calls, saw_output, stream_done, requests, received,
                   tool_outcome>>
    /\ StreamingFrame

\* Mutant: the ToolStart of the following call is sent along with this one.
ToolStart_Batch ==
    /\ a_pc = "tools"
    /\ a_events' = a_events
           \o <<AgToolStart(tool_calls[tool_idx].name,
                            DecodeInput(tool_calls[tool_idx].arguments))>>
           \o (IF tool_idx < Len(tool_calls)
               THEN <<AgToolStart(tool_calls[tool_idx + 1].name,
                        DecodeInput(tool_calls[tool_idx + 1].arguments))>>
               ELSE <<>>)
    /\ a_pc' = "running"
    /\ UNCHANGED <<max_iterations, history, iteration, messages,
                   assistant_text, tool_calls, saw_output, stream_done,
                   tool_idx, requests, received, turns, tool_outcome>>
    /\ StreamingFrame

\* The send of ToolStart for the next tool call (agent.rs 224-235).
ToolStart ==
    /\ a_pc = "tools"
    /\ a_events' = Append(a_events,
           AgToolStart(tool_calls[tool_idx].name,
                       DecodeInput(tool_calls[tool_idx].arguments)))
    /\ a_pc' = "running"
    /\ UNCHANGED <<max_iterations, history, iteration, messages,
                   assistant_text, tool_calls, saw_output, stream_done,
                   tool_idx, requests, received, turns, tool_outcome>>
    /\ StreamingFrame

\* The tool returns; its result is appended and sent (agent.rs 237-271).
ToolFinish ==
    /\ a_pc = "running"
    /\ \E answer \in ToolAnswers :
         LET call == tool_calls[tool_idx]
             result == RunTool(call.name, answer)
             rt == ResultText(result)
         IN /\ messages' = Append(messages,
                                  MessageToolResult(call.id, rt.text))
            /\ a_events' = Append(a_events,
                                  AgToolResult(call.name, rt.text, rt.success))
            /\ tool_outcome' = IF result.ok THEN "ok"
                               ELSE IF call.name \in Registered THEN "err"
                               ELSE "missing"
    /\ IF tool_idx < Len(tool_calls)
       THEN /\ tool_idx' = tool_idx + 1
            /\ a_pc' = "tools"
            /\ UNCHANGED iteration
       ELSE /\ iteration' = iteration + 1
            /\ a_pc' = "iter"
            /\ UNCHANGED tool_idx
    /\ UNCHANGED <<max_iterations, history, assistant_text, tool_calls,
                   saw_output, stream_done, requests, received, turns>>
    /\ StreamingFrame

(***************************************************************************)
(* AGENT, non-streaming  (sdk/agent.rs, Agent::run)                        *)
(*                                                                         *)
(* The provider's answer is the first choice's message: an assistant       *)
(* message with optional content and optional tool_calls.                  *)
(***************************************************************************)
ResponseMessages ==
    {[role |-> "assistant", content |-> c, tool_calls |-> t,
      tool_call_id |-> None] :
        c \in {None, Some("Hi")},
        t \in {None, Some(<<>>),
               Some(<<NewToolCall("c1", "read_file", "{}")>>),
               Some(<<NewToolCall("c1", "read_file", "{}"),
                      NewToolCall("c2", "ghost", "{}")>>)}}

\* Message::text (types.rs 136-138).
MessageText(msg) == IF msg.content = None THEN "" ELSE msg.content[1]

RunFrame ==
    /\ AgentFrame
    /\ UNCHANGED <<max_iterations, history, assistant_text, saw_output,
                   stream_done, a_events, received, turns>>

\* client.complete(request) answers with a choice (agent.rs 85-117).
Complete ==
    /\ a_pc = "iter" /\ ~streaming
    /\ LoopContinues(iteration, max_iterations)
    /\ requests' = requests + 1
    /\ \E msg \in ResponseMessages :
         /\ messages' = Append(messages, msg)
         /\ IF msg.tool_calls # None
            THEN /\ tool_calls' = msg.tool_calls[1]
                 /\ IF msg.tool_calls[1] = <<>>
                    THEN /\ iteration' = iteration + 1
                         /\ a_pc' = "iter"
                         /\ UNCHANGED tool_idx
                    ELSE /\ tool_idx' = 1
                         /\ a_pc' = "calling"
                         /\ UNCHANGED iteration
                 /\ UNCHANGED a_result
            ELSE /\ a_result' = [ok |-> TRUE, text |-> MessageText(msg),
                                 messages |-> messages']
                 /\ a_pc' = "end"
                 /\ UNCHANGED <<tool_calls, tool_idx, iteration>>
    /\ UNCHANGED tool_outcome
    /\ RunFrame

\* client.complete(request) fails, or answers without choices
\* (agent.rs 86-91).
CompleteFails ==
    /\ a_pc = "iter" /\ ~streaming
    /\ LoopContinues(iteration, max_iterations)
    /\ requests' = requests + 1
    /\ \E err \in {"API error", "No choices returned from model"} :
         a_result' = [ok |-> FALSE, text |-> err, messages |-> <<>>]
    /\ a_pc' = "end"
    /\ UNCHANGED <<iteration, messages, tool_calls, tool_idx, tool_outcome>>
    /\ RunFrame

\* One tool call of the answer is executed (agent.rs 98-114).
RunToolCall ==
    /\ a_pc = "calling"
    /\ \E answer \in ToolAnswers :
         LET call == tool_calls[tool_idx]
             result == RunTool(call.name, answer)
         IN /\ messages' = Append(messages,
                   MessageToolResult(call.id, ResultText(result).text))
            /\ tool_outcome' = IF result.ok THEN "ok"
                               ELSE IF call.name \in Registered THEN "err"
                               ELSE "missing"
    /\ IF tool_idx < Len(tool_calls)
       THEN /\ tool_idx' = tool_idx + 1
            /\ UNCHANGED <<a_pc, iteration>>
       ELSE /\ iteration' = iteration + 1
            /\ a_pc' = "iter"
            /\ UNCHANGED tool_idx
    /\ UNCHANGED <<requests, tool_calls, a_result>>
    /\ RunFrame

\* The loop is exhausted (agent.rs 120-123).
RunExhausted ==
    /\ a_pc = "iter" /\ ~streaming
    /\ ~LoopContinues(iteration, max_iterations)
    /\ a_result' = [ok |-> FALSE, text |-> MaxIterationsError,
                    messages |-> <<>>]
    /\ a_pc' = "end"
    /\ UNCHANGED <<iteration, messages, tool_calls, tool_idx, requests,
                   tool_outcome>>
    /\ RunFrame

\* The consumer drops the ReceiverStream returned by
\* run_streaming_with_debug (agent.rs 141, 282) while the task runs; from
\* then on every tx.send returns Err, which the task discards with `let _ =`
\* (agent.rs 157, 172, 182, 198, 208, 230, 262, 274).
ConsumerDrops ==
    /\ streaming /\ a_pc # "end"
    /\ rx_dropped_at = -1
    /\ rx_dropped_at' = Len(a_events)
    /\ UNCHANGED <<pathVars, sseVars, frameVars, extVars>>
    /\ UNCHANGED <<max_iterations, history, iteration, messages,
                   assistant_text, tool_calls, saw_output, stream_done,
                   tool_idx, a_pc, a_events, requests, received, turns,
                   tool_outcome, streaming, a_result>>

(***************************************************************************)
(* STREAMING RPC OPERATIONS  (commands/ai_commands.rs)                      *)
(*                                                                         *)
(* ask_ai_stream, ask_ai_stream_with_session and get_inline_completion     *)
(* walk through their set-up stages, then forward the runner's stream to   *)
(* the on_event channel.  Whether a stage fails is an input of the step.   *)
(* on_event.send fails when the front end has closed the channel; every    *)
(* send is written `.map_err(|e| e.to_string())?`.                         *)
(***************************************************************************)
MaxRpcItems == 3

RpcOps == {"ask_ai_stream", "ask_ai_stream_with_session",
           "get_inline_completion"}

\* AIResponseChunk (ai_commands.rs 38-45).
AIResponseChunk(content, tool_call, tool_operation, error, done) ==
    [content |-> content, tool_call |-> tool_call,
     tool_operation |-> tool_operation, error |-> error, done |-> done]

\* InlineCompletionChunk (ai_commands.rs 393-398).
InlineCompletionChunk(text, done, error) ==
    [text |-> text, done |-> done, error |-> error]

\* ToolOperation (ai_commands.rs 31-36); the target is left out.
ToolOperation(operation, status) ==
    [operation |-> operation, status |-> status]

\* The terminal chunk of an operation: error = None on normal completion.
FinalChunk(op, error) ==
    IF op = "get_inline_completion"
    THEN InlineCompletionChunk("", TRUE, error)
    ELSE AIResponseChunk(None, None, None, error, TRUE)

\* The parts of a runner event's llm_response.content (adk_core::Part).
Parts == {"text", "empty_text", "function_call", "function_ok",
          "function_failed", "other"}

\* The runner events of the model: no content, one part, or two parts.
RunnerEvents ==
    {<<>>} \cup {<<p>> : p \in Parts}
    \cup {<<"text", "function_call">>, <<"function_call", "function_ok">>}

\* What one part becomes on the channel: a sequence of zero or one chunk.
PartChunks(op, part) ==
    IF op = "get_inline_completion"
    THEN IF part = "text"
         THEN <<InlineCompletionChunk("t", FALSE, None)>> ELSE <<>>
    ELSE IF part = "text"
    THEN <<AIResponseChunk(Some("t"), None, None, None, FALSE)>>
    ELSE IF part = "function_call"
    THEN <<AIResponseChunk(None, Some("Calling tool"),
               Some(ToolOperation("Calling", "started")), None, FALSE)>>
    ELSE IF part \in {"function_ok", "function_failed"}
            /\ op = "ask_ai_stream"
    THEN <<AIResponseChunk(None, Some("Tool returned"),
               Some(ToolOperation("Completed",
                   IF part = "function_ok" THEN "completed" ELSE "failed")),
               None, FALSE)>>
    ELSE <<>>

RECURSIVE EventChunks(_, _)
EventChunks(op, parts) ==
    IF parts = <<>> THEN <<>>
    ELSE PartChunks(op, Head(parts)) \o EventChunks(op, Tail(parts))

RpcIdle ==
    /\ rpc_op = "none"
    /\ rpc_pc = "idle"
    /\ rpc_chunks = <<>>
    /\ rpc_return = "none"
    /\ rpc_failed = "none"
    /\ rpc_items = 0
    /\ on_event_open = TRUE

RpcInit ==
    /\ rpc_op \in RpcOps
    /\ rpc_pc = "credentials"
    /\ rpc_chunks = <<>>
    /\ rpc_return = "none"
    /\ rpc_failed = "none"
    /\ rpc_items = 0
    /\ on_event_open \in BOOLEAN

RpcFrame ==
    /\ UNCHANGED <<pathVars, sseVars, frameVars, agentVars, editVars,
                   writeVars, sessVars, auxVars>>
    /\ UNCHANGED <<rpc_op, on_event_open>>

\* on_event.send(chunk).map_err(..)?; then the operation goes on at `next`.
SendThen(chunk, next) ==
    IF on_event_open
    THEN /\ rpc_chunks' = Append(rpc_chunks, chunk)
         /\ rpc_pc' = next
         /\ rpc_return' = IF next = "returned" THEN "Ok" ELSE rpc_return
    ELSE /\ rpc_pc' = "returned"
         /\ rpc_return' = "Err"
         /\ UNCHANGED rpc_chunks

\* A stage fails and the operation reports it in a terminal chunk and
\* returns Ok(()) (e.g. ai_commands.rs 148-160).
ReportFailure(stage) ==
    /\ rpc_failed' = stage
    /\ SendThen(FinalChunk(rpc_op, Some(stage)), "returned")

\* A stage fails and the operation returns Err through `?`
\* (ai_commands.rs 511, 521, 532).
ReturnErr(stage) ==
    /\ rpc_failed' = stage
    /\ rpc_pc' = "returned"
    /\ rpc_return' = "Err"
    /\ UNCHANGED rpc_chunks

Proceed(next) ==
    /\ rpc_pc' = next
    /\ UNCHANGED <<rpc_chunks, rpc_return, rpc_failed>>

\* api_key.trim().is_empty() (ai_commands.rs 125-139, 412-424, 683-697).
RpcCheckApiKey ==
    /\ rpc_pc = "credentials"
    /\ \E empty \in BOOLEAN :
         IF empty THEN ReportFailure("API key is required")
         ELSE Proceed(IF rpc_op = "get_inline_completion"
                      THEN "model" ELSE "agent")
    /\ UNCHANGED rpc_items
    /\ RpcFrame

\* get_inline_completion: OpenAIClient::compatible (ai_commands.rs 469-481).
RpcCreateModel ==
    /\ rpc_pc = "model"
    /\ \E ok \in BOOLEAN :
         IF ok THEN Proceed("agent")
         ELSE ReportFailure("Failed to create model")
    /\ UNCHANGED rpc_items
    /\ RpcFrame

\* AIService::create_agent / LlmAgentBuilder::build
\* (ai_commands.rs 145-161, 483-499, 703-719).
RpcCreateAgent ==
    /\ rpc_pc = "agent"
    /\ \E ok \in BOOLEAN :
         IF ok THEN Proceed("session")
         ELSE ReportFailure("Failed to create agent")
    /\ UNCHANGED rpc_items
    /\ RpcFrame

\* ask_ai_stream: service.get_or_create_session (ai_commands.rs 167-182);
\* ask_ai_stream_with_session calls it only for an empty session_id
\* (ai_commands.rs 724-743).
RpcGetOrCreateSession ==
    /\ rpc_pc = "session"
    /\ rpc_op \in {"ask_ai_stream", "ask_ai_stream_with_session"}
    /\ \E session_id_empty, ok \in BOOLEAN :
         LET next == IF rpc_op = "ask_ai_stream"
                     THEN "runner" ELSE "validate"
             called == rpc_op = "ask_ai_stream" \/ session_id_empty
         IN IF called /\ ~ok
            THEN ReportFailure("Failed to create session")
            ELSE Proceed(next)
    /\ UNCHANGED rpc_items
    /\ RpcFrame

\* ask_ai_stream_with_session: service.validate_or_create_session
\* (ai_commands.rs 745-763).
RpcValidateSession ==
    /\ rpc_pc = "validate"
    /\ \E ok \in BOOLEAN :
         IF ok THEN Proceed("runner")
         ELSE ReportFailure("Session error")
    /\ UNCHANGED rpc_items
    /\ RpcFrame

\* get_inline_completion: the ephemeral session, created with `?`
\* (ai_commands.rs 502-511).
RpcCreateEphemeralSession ==
    /\ rpc_pc = "session"
    /\ rpc_op = "get_inline_completion"
    /\ \E ok \in BOOLEAN :
         IF ok THEN Proceed("runner")
         ELSE ReturnErr("Failed to create session")
    /\ UNCHANGED rpc_items
    /\ RpcFrame

\* service.create_runner (ai_commands.rs 185-200, 766-781);
\* get_inline_completion: Runner::new with `?` (ai_commands.rs 513-521).
RpcCreateRunner ==
    /\ rpc_pc = "runner"
    /\ \E ok \in BOOLEAN :
         IF ok THEN Proceed("run")
         ELSE IF rpc_op = "get_inline_completion"
         THEN ReturnErr("Failed to create runner")
         ELSE ReportFailure("Failed to create runner")
    /\ UNCHANGED rpc_items
    /\ RpcFrame

\* runner.run(..).await (ai_commands.rs 206-224, 787-805);
\* get_inline_completion: with `?` (ai_commands.rs 525-532).
RpcRun ==
    /\ rpc_pc = "run"
    /\ \E ok \in BOOLEAN :
         IF ok THEN Proceed("stream")
         ELSE IF rpc_op = "get_inline_completion"
         THEN ReturnErr("Failed to run agent")
         ELSE ReportFailure("Failed to run agent")
    /\ UNCHANGED rpc_items
    /\ RpcFrame

\* stream.next() yields Ok(event): each part is forwarded as a chunk
\* (ai_commands.rs 229-353, 536-552, 810-878).
RpcStreamEvent ==
    /\ rpc_pc = "stream"
    /\ rpc_items < MaxRpcItems
    /\ rpc_items' = rpc_items + 1
    /\ \E event \in RunnerEvents :
         LET chunks == EventChunks(rpc_op, event) IN
         IF chunks = <<>> \/ on_event_open
         THEN /\ rpc_chunks' = rpc_chunks \o chunks
              /\ UNCHANGED <<rpc_pc, rpc_return>>
         ELSE /\ rpc_pc' = "returned"
              /\ rpc_return' = "Err"
              /\ UNCHANGED rpc_chunks
    /\ UNCHANGED rpc_failed
    /\ RpcFrame

\* stream.next() yields Err(e) (ai_commands.rs 354-366, 553-562, 879-891).
RpcStreamError ==
    /\ rpc_pc = "stream"
    /\ ReportFailure("Stream error")
    /\ UNCHANGED rpc_items
    /\ RpcFrame

\* The stream ends (ai_commands.rs 370-382, 566-574, 895-907).
RpcStreamEnd ==
    /\ rpc_pc = "stream"
    /\ SendThen(FinalChunk(rpc_op, None), "returned")
    /\ UNCHANGED <<rpc_items, rpc_failed>>
    /\ RpcFrame

(***************************************************************************)
(* EDIT ENGINE  (commands/ai_tools.rs, execute_edit_file in Edit mode)     *)
(*                                                                         *)
(* Text is a sequence of one-byte characters; "SP" is a space and "LF" a   *)
(* line feed.  Offsets are byte offsets counted from 0, as in the code; a  *)
(* range start..end covers the characters start+1 .. end of the sequence.  *)
(***************************************************************************)
MaxContent == 3
MaxEdits == 2

Alphabet == {"a", "b", "SP", "LF"}
IsWhitespace(ch) == ch \in {"SP", "LF"}

Contents == SeqsUpTo(Alphabet, MaxContent)
OldTexts == {<<"a">>, <<"b">>, <<"a", "a">>, <<"a", "SP">>, <<"SP">>}
NewTexts == {<<>>, <<"b", "b">>}

\* EditOperation (ai_tools.rs 56-60).
EditOperation(old_text, new_text) ==
    [old_text |-> old_text, new_text |-> new_text]

EditOperations ==
    {EditOperation(o, n) : o \in OldTexts, n \in NewTexts}

\* str::match_indices: the start offsets of the disjoint matches of pat,
\* found left to right; the search resumes after the end of each match.
RECURSIVE MatchFrom(_, _, _)
MatchFrom(content, pat, from) ==
    IF from + Len(pat) > Len(content) THEN <<>>
    ELSE IF SubSeq(content, from + 1, from + Len(pat)) = pat
    THEN <<from>> \o MatchFrom(content, pat, from + Len(pat))
    ELSE MatchFrom(content, pat, from + 1)

MatchIndices(content, pat) == MatchFrom(content, pat, 0)

\* str::trim on both ends.
RECURSIVE Trim(_)
Trim(text) ==
    IF text = <<>> THEN <<>>
    ELSE IF IsWhitespace(Head(text)) THEN Trim(Tail(text))
    ELSE IF IsWhitespace(text[Len(text)])
    THEN Trim(SubSeq(text, 1, Len(text) - 1))
    ELSE text

\* normalize_text (ai_tools.rs 614-629): runs of whitespace become one
\* space, then the ends are trimmed.
RECURSIVE CollapseWhitespace(_, _)
CollapseWhitespace(text, last_was_space) ==
    IF text = <<>> THEN <<>>
    ELSE IF IsWhitespace(Head(text))
    THEN (IF last_was_space THEN <<>> ELSE <<"SP">>)
         \o CollapseWhitespace(Tail(text), TRUE)
    ELSE <<Head(text)>> \o CollapseWhitespace(Tail(text), FALSE)

normalize_text(text) == Trim(CollapseWhitespace(text, FALSE))

\* str::split('\n'): the lines, at least one.
RECURSIVE SplitLines(_)
SplitLines(text) ==
    IF \A i \in DOMAIN text : text[i] # "LF" THEN <<text>>
    ELSE LET pos == CHOOSE i \in DOMAIN text :
                        text[i] = "LF" /\ \A j \in 1..(i - 1) : text[j] # "LF"
         IN <<SubSeq(text, 1, pos - 1)>>
            \o SplitLines(SubSeq(text, pos + 1, Len(text)))

\* [..].join("\n")
RECURSIVE JoinLines(_)
JoinLines(lines) ==
    IF lines = <<>> THEN <<>>
    ELSE IF Len(lines) = 1 THEN lines[1]
    ELSE lines[1] \o <<"LF">> \o JoinLines(Tail(lines))

\* compute_line_starts (ai_tools.rs 604-612).
RECURSIVE LineStartsFrom(_, _)
LineStartsFrom(content, idx) ==
    IF idx >= Len(content) THEN <<>>
    ELSE (IF content[idx + 1] = "LF" THEN <<idx + 1>> ELSE <<>>)
         \o LineStartsFrom(content, idx + 1)

compute_line_starts(content) == <<0>> \o LineStartsFrom(content, 0)

RangeOk(start, end) == [ok |-> TRUE, start |-> start, end |-> end, err |-> ""]
RangeErr(err) == [ok |-> FALSE, start |-> 0, end |-> 0, err |-> err]

\* Mutant: the range of a window stops before the newline that ends it.
RECURSIVE LineMatchesFrom_EndOfLine(_, _, _, _, _)
LineMatchesFrom_EndOfLine(content, lines, old_lines, normalized_old, i) ==
    IF i > Len(lines) - Len(old_lines) THEN <<>>
    ELSE LET candidate == JoinLines(SubSeq(lines, i + 1, i + Len(old_lines)))
             line_starts == compute_line_starts(content)
             start == line_starts[i + 1]
             end == IF i + Len(old_lines) < Len(line_starts)
                    THEN line_starts[i + Len(old_lines) + 1] - 1
                    ELSE Len(content)
         IN (IF normalize_text(candidate) = normalized_old
             THEN <<[start |-> start, end |-> end]>> ELSE <<>>)
            \o LineMatchesFrom_EndOfLine(content, lines, old_lines,
                                         normalized_old, i + 1)

\* The whitespace-insensitive line-block matches (ai_tools.rs 576-589).
RECURSIVE LineMatchesFrom(_, _, _, _, _)
LineMatchesFrom(content, lines, old_lines, normalized_old, i) ==
    IF i > Len(lines) - Len(old_lines) THEN <<>>
    ELSE LET candidate == JoinLines(SubSeq(lines, i + 1, i + Len(old_lines)))
             line_starts == compute_line_starts(content)
             start == line_starts[i + 1]
             end == IF i + Len(old_lines) < Len(line_starts)
                    THEN line_starts[i + Len(old_lines) + 1]
                    ELSE Len(content)
         IN (IF normalize_text(candidate) = normalized_old
             THEN <<[start |-> start, end |-> end]>> ELSE <<>>)
            \o LineMatchesFrom(content, lines, old_lines, normalized_old,
                               i + 1)

\* resolve_edit_range (ai_tools.rs 546-602).
resolve_edit_range(content, edit) ==
    LET exact_matches == MatchIndices(content, edit.old_text)
        normalized_old == normalize_text(edit.old_text)
        lines == SplitLines(content)
        old_lines == SplitLines(edit.old_text)
        matches == LineMatchesFrom(content, lines, old_lines,
                                   normalized_old, 0)
    IN IF Len(exact_matches) = 1
       THEN RangeOk(exact_matches[1], exact_matches[1] + Len(edit.old_text))
       ELSE IF Len(exact_matches) > 1
       THEN RangeErr("old_text matches several locations")
       ELSE IF normalized_old = <<>>
       THEN RangeErr("old_text is empty after normalization")
       ELSE IF Len(lines) < Len(old_lines)
       THEN RangeErr("old_text not found in file")
       ELSE IF matches = <<>>
       THEN RangeErr("old_text not found in file")
       ELSE IF Len(matches) > 1
       THEN RangeErr("old_text matched multiple locations")
       ELSE RangeOk(matches[1].start, matches[1].end)

\* ResolvedEdit (ai_tools.rs 502-508); index counts from 0 as enumerate().
ResolvedEdit(index, range, edit) ==
    [index |-> index, start |-> range.start, end |-> range.end,
     old_text |-> edit.old_text, new_text |-> edit.new_text]

\* What the resolution loop does with edit number k (1-based position):
\* ai_tools.rs 847-854.
ResolveOne(content, edits, k) ==
    IF Trim(edits[k].old_text) = <<>>
    THEN RangeErr("empty old_text")
    ELSE resolve_edit_range(content, edits[k])

\* Vec::sort_by_key is a stable sort: x goes behind every element whose
\* key is not greater than its own.  The key is range.start, ascending
\* (ai_tools.rs 863) or through std::cmp::Reverse (ai_tools.rs 877).
RECURSIVE SortedInsert(_, _, _)
SortedInsert(sorted, x, reversed) ==
    IF sorted = <<>> THEN <<x>>
    ELSE IF (IF reversed THEN x.start > Head(sorted).start
                         ELSE x.start < Head(sorted).start)
    THEN <<x>> \o sorted
    ELSE <<Head(sorted)>> \o SortedInsert(Tail(sorted), x, reversed)

RECURSIVE StableSort(_, _)
StableSort(seq, reversed) ==
    IF seq = <<>> THEN <<>>
    ELSE SortedInsert(StableSort(SubSeq(seq, 1, Len(seq) - 1), reversed),
                      seq[Len(seq)], reversed)

\* resolved_edits.sort_by_key(|edit| edit.range.start)  (ai_tools.rs 863).
SortByStart(resolved) == StableSort(resolved, FALSE)

\* prev.range.end > curr.range.start  (ai_tools.rs 867).
Conflicts_SameStart(prev, curr) == prev.start = curr.start
Conflicts(prev, curr) == prev.end > curr.start

\* sort_by_key(|edit| Reverse(edit.range.start))  (ai_tools.rs 877).
SortByStartReversed_Ascending(resolved) == StableSort(resolved, FALSE)
SortByStartReversed(resolved) == StableSort(resolved, TRUE)

\* String::replace_range.
ReplaceRange(text, start, end, new_text) ==
    SubSeq(text, 1, start) \o new_text \o SubSeq(text, end + 1, Len(text))

\* for edit in &resolved_edits { updated.replace_range(..) }
\* (ai_tools.rs 876-880).
RECURSIVE ApplyEdits(_, _)
ApplyEdits(updated, resolved) ==
    IF resolved = <<>> THEN updated
    ELSE ApplyEdits(ReplaceRange(updated, Head(resolved).start,
                                 Head(resolved).end, Head(resolved).new_text),
                    Tail(resolved))

EditOk(resolved, updated) ==
    [ok |-> TRUE, err |-> "", resolved |-> resolved, updated |-> updated]
EditErr(err) ==
    [ok |-> FALSE, err |-> err, resolved |-> <<>>, updated |-> <<>>]

\* EditFileMode::Edit on an existing, readable file (ai_tools.rs 831-887):
\* the result, the resolved edits in index order and the text to write.
EditMode_ListedOrder(content, edits) ==
    LET ranges == [k \in DOMAIN edits |-> ResolveOne(content, edits, k)]
        resolved == [k \in DOMAIN edits |->
                        ResolvedEdit(k - 1, ranges[k], edits[k])]
    IN IF edits = <<>> THEN EditErr("edits cannot be empty for edit mode")
       ELSE IF \E k \in DOMAIN edits : ~ranges[k].ok
       THEN EditErr("Edit failed")
       ELSE IF \E i \in 2..Len(resolved) :
                  Conflicts(resolved[i - 1], resolved[i])
       THEN EditErr("Conflicting edit ranges detected")
       ELSE EditOk(resolved, ApplyEdits(content, SortByStartReversed(resolved)))

EditMode(content, edits) ==
    LET ranges == [k \in DOMAIN edits |-> ResolveOne(content, edits, k)]
        resolved == [k \in DOMAIN edits |->
                        ResolvedEdit(k - 1, ranges[k], edits[k])]
        sorted == SortByStart(resolved)
    IN IF edits = <<>> THEN EditErr("edits cannot be empty for edit mode")
       ELSE IF \E k \in DOMAIN edits : ~ranges[k].ok
       THEN EditErr("Edit failed")
       ELSE IF \E i \in 2..Len(sorted) : Conflicts(sorted[i - 1], sorted[i])
       THEN EditErr("Conflicting edit ranges detected")
       ELSE EditOk(resolved, ApplyEdits(content, SortByStartReversed(sorted)))

EditIdle ==
    /\ e_content = <<>>
    /\ e_edits = <<>>
    /\ e_disk = <<>>
    /\ e_result = EditErr("none")
    /\ e_pc = "idle"

\* The file exists with content e_content; the request lists e_edits.
EditInit ==
    /\ e_content \in Contents
    /\ e_edits \in SeqsUpTo(EditOperations, MaxEdits)
    /\ e_disk = e_content
    /\ e_result = EditErr("none")
    /\ e_pc = "call"

\* A request of one edit whose old_text may span lines and differ from the
\* content in its whitespace.
FuzzyOldTexts ==
    OldTexts \cup {<<"a", "LF">>, <<"SP", "a">>, <<"a", "LF", "b">>,
                   <<"a", "SP", "b">>, <<"LF">>}

FuzzyInit ==
    /\ e_content \in Contents
    /\ e_edits \in {<<EditOperation(o, n)>> :
                        o \in FuzzyOldTexts, n \in NewTexts}
    /\ e_disk = e_content
    /\ e_result = EditErr("none")
    /\ e_pc = "call"

\* execute_edit_file in Edit mode: the file is written only on success
\* (ai_tools.rs 882).
EditFile ==
    /\ e_pc = "call"
    /\ e_result' = EditMode(e_content, e_edits)
    /\ e_disk' = IF e_result'.ok THEN e_result'.updated ELSE e_disk
    /\ e_pc' = "ret"
    /\ UNCHANGED <<e_content, e_edits>>
    /\ UNCHANGED <<pathVars, sseVars, frameVars, agentVars, rpcVars,
                   writeVars, sessVars, auxVars>>

(***************************************************************************)
(* WRITE-CLASS TOOLS  (commands/ai_tools.rs: write_file, edit_file,        *)
(* streaming_edit_file)                                                    *)
(*                                                                         *)
(* The tools run against a file system that they change.  File content is  *)
(* a token: "old" for a file that was there, "new" for the content the     *)
(* request carries, "edited" for the result of accepted edits.             *)
(***************************************************************************)
MaxWriteDepth == 2

WriteNames == {"proj", "a", "new", ".env", ".ENV.local", ".Git", "link"}
WriteTargets ==
    [abs : BOOLEAN,
     comps : SeqsUpTo(WriteNames \cup {ParentDir}, MaxWriteDepth)]

\* The project holds a file .env and a directory .Git ...
FsWithEnvFile ==
    FileSystem(FsDirs \cup {<<"proj", ".Git">>},
               [loc \in FsFiles \cup {<<"proj", ".env">>} |-> "old"],
               FsLinks)

\* ... or its .env is a symbolic link to another file of the project.
FsWithEnvLink ==
    FileSystem(FsDirs \cup {<<"proj", ".Git">>},
               [loc \in FsFiles |-> "old"],
               FsLinks @@ (<<"proj", ".env">> :> <<"proj", "a">>))

FileSystems == {FsWithEnvFile, FsWithEnvLink}

\* str::to_lowercase / eq_ignore_ascii_case on the names of the model.
LowerCase(name) ==
    IF name = ".ENV.local" THEN ".env.local"
    ELSE IF name = ".Git" THEN ".git"
    ELSE name

\* starts_with(".env.") on a lower-cased name of the model.
StartsWithEnvDot(name) == name \in {".env.local"}

\* Path::file_name: the last component unless it is "..".
FileName(comps) ==
    IF comps = <<>> \/ comps[Len(comps)] = ParentDir THEN ""
    ELSE comps[Len(comps)]

\* is_sensitive_path (ai_tools.rs 112-137).
is_sensitive_path(comps) ==
    LET sensitive_dirs == {".git", ".ssh", ".gnupg"}
        sensitive_files == {"tauri.conf.json", "id_rsa", "id_ed25519"}
        file_name == FileName(comps)
    IN \/ LowerCase(file_name) = ".env"
       \/ StartsWithEnvDot(LowerCase(file_name))
       \/ LowerCase(file_name) \in sensitive_files
       \/ \E i \in DOMAIN comps :
            comps[i] # ParentDir /\ LowerCase(comps[i]) \in sensitive_dirs

\* ensure_not_sensitive (ai_tools.rs 139-152): TRUE when it returns Ok.
ensure_not_sensitive(comps, allow_sensitive) ==
    allow_sensitive \/ ~is_sensitive_path(comps)

\* Option<bool>::unwrap_or(false).
UnwrapOrFalse(opt) == IF opt = None THEN FALSE ELSE opt[1]

ToolOk(fs) == [ok |-> TRUE, fs |-> fs, err |-> ""]
ToolErr(fs, err) == [ok |-> FALSE, fs |-> fs, err |-> err]

\* fs::create_dir_all(comps): every missing directory on the way is
\* created; it fails on a component that is a regular file.
RECURSIVE CreateDirAllFrom(_, _, _)
CreateDirAllFrom(fs, cur, comps) ==
    IF comps = <<>> THEN ToolOk(fs)
    ELSE IF Head(comps) = ParentDir
    THEN CreateDirAllFrom(fs, Parent(cur), Tail(comps))
    ELSE LET nxt == Append(cur, Head(comps))
             dst == IF nxt \in DOMAIN fs.links THEN fs.links[nxt] ELSE nxt
         IN IF dst \in DOMAIN fs.files
            THEN ToolErr(fs, "Failed to create directories")
            ELSE CreateDirAllFrom(
                     [fs EXCEPT !.dirs = fs.dirs \cup {dst}], dst, Tail(comps))

CreateDirAll(fs, comps) == CreateDirAllFrom(fs, <<>>, comps)

\* fs::write(comps, content): the parent must be a directory; the file is
\* created or truncated and written, through a symbolic link if it is one;
\* writing to a directory fails.
FsWrite(fs, comps, content) ==
    LET dir == WalkIn(fs, <<>>, Parent(comps))
        nxt == Append(dir, FileName(comps))
        dst == IF nxt \in DOMAIN fs.links THEN fs.links[nxt] ELSE nxt
    IN IF comps = <<>> \/ FileName(comps) = "" \/ dir \notin fs.dirs
          \/ dst \in fs.dirs \/ Parent(dst) \notin fs.dirs
       THEN ToolErr(fs, "Failed to write file")
       ELSE ToolOk([fs EXCEPT !.files =
                       [loc \in DOMAIN fs.files \cup {dst} |->
                           IF loc = dst THEN content ELSE fs.files[loc]]])

\* if let Some(parent) = path.parent() { create_dir_all(parent) } and then
\* fs::write(&path, content)  (ai_tools.rs 337-345, 806-813, 821-828).
CreateParentAndWrite(fs, comps, content) ==
    LET made == IF comps = <<>> THEN ToolOk(fs)
                ELSE CreateDirAll(fs, Parent(comps))
    IN IF ~made.ok THEN made ELSE FsWrite(made.fs, comps, content)

WriteToolNames == {"write_file", "edit_file", "streaming_edit_file"}
EditFileModes == {"create", "overwrite", "edit"}

\* What the request carries besides the path: "none" (content or edits
\* absent), "rejected" (edits that the edit engine rejects), "good".
Payloads == {"none", "rejected", "good"}

\* WriteFileTool::run (ai_tools.rs 327-355); content is a required field.
WriteFileRun(fs, root, target, payload, allow_sensitive) ==
    IF root = None THEN ToolErr(fs, "No active project path")
    ELSE IF payload = "none" THEN ToolErr(fs, "missing field content")
    ELSE LET path == ResolveAndValidateIn(fs, root[1], target) IN
         IF ~path.ok THEN ToolErr(fs, path.err)
         ELSE IF ~ensure_not_sensitive(path.path,
                                       UnwrapOrFalse(allow_sensitive))
         THEN ToolErr(fs, "Permission denied: sensitive path")
         ELSE CreateParentAndWrite(fs, path.path, "new")

\* execute_edit_file whose create mode does not look whether the path exists.
execute_edit_file_Blind(fs, root, target, mode, payload, allow_sensitive) ==
    LET path == ResolveAndValidateIn(fs, root, target) IN
    IF ~path.ok THEN ToolErr(fs, path.err)
    ELSE IF ~ensure_not_sensitive(path.path, UnwrapOrFalse(allow_sensitive))
    THEN ToolErr(fs, "Permission denied: sensitive path")
    ELSE IF mode \in {"create", "overwrite"}
    THEN IF payload = "none" THEN ToolErr(fs, "content is required")
         ELSE CreateParentAndWrite(fs, path.path, "new")
    ELSE IF ~ExistsIn(fs, path.path) THEN ToolErr(fs, "File does not exist")
         ELSE IF payload # "good" THEN ToolErr(fs, "Edit failed")
         ELSE FsWrite(fs, path.path, "edited")

\* execute_edit_file (ai_tools.rs 792-903).
execute_edit_file(fs, root, target, mode, payload, allow_sensitive) ==
    LET path == ResolveAndValidateIn(fs, root, target) IN
    IF ~path.ok THEN ToolErr(fs, path.err)
    ELSE IF ~ensure_not_sensitive(path.path, UnwrapOrFalse(allow_sensitive))
    THEN ToolErr(fs, "Permission denied: sensitive path")
    ELSE IF mode = "create"
    THEN IF ExistsIn(fs, path.path) THEN ToolErr(fs, "File already exists")
         ELSE IF payload = "none"
         THEN ToolErr(fs, "content is required for create mode")
         ELSE CreateParentAndWrite(fs, path.path, "new")
    ELSE IF mode = "overwrite"
    THEN IF payload = "none"
         THEN ToolErr(fs, "content is required for overwrite mode")
         ELSE CreateParentAndWrite(fs, path.path, "new")
    ELSE IF ~ExistsIn(fs, path.path) THEN ToolErr(fs, "File does not exist")
         ELSE IF payload = "none"
         THEN ToolErr(fs, "edits are required for edit mode")
         ELSE IF CanonicalizeIn(fs, path.path) \notin DOMAIN fs.files
         THEN ToolErr(fs, "Failed to read file")
         ELSE IF payload = "rejected" THEN ToolErr(fs, "Edit failed")
         ELSE FsWrite(fs, path.path, "edited")

\* EditFileTool::run and StreamingEditFileTool::run
\* (ai_tools.rs 420-427, 492-499).
EditFileRun(fs, root, target, mode, payload, allow_sensitive) ==
    IF root = None THEN ToolErr(fs, "No active project path")
    ELSE execute_edit_file(fs, root[1], target, mode, payload,
                           allow_sensitive)

WriteIdle ==
    /\ w_fs0 = Fs0 /\ w_fs = Fs0
    /\ w_root = None
    /\ w_tool = "none" /\ w_mode = "none"
    /\ w_target = [abs |-> FALSE, comps |-> <<>>]
    /\ w_payload = "none"
    /\ w_allow = None
    /\ w_result = ToolErr(Fs0, "none")
    /\ w_pc = "idle"

WriteInit ==
    /\ w_fs0 \in FileSystems /\ w_fs = w_fs0
    /\ w_root \in {None, Some(<<"proj">>)}
    /\ w_tool \in WriteToolNames
    /\ w_mode \in IF w_tool = "write_file" THEN {"none"} ELSE EditFileModes
    /\ w_target \in WriteTargets
    /\ w_payload \in Payloads
    /\ w_allow \in {None, Some(FALSE), Some(TRUE)}
    /\ w_result = ToolErr(Fs0, "none")
    /\ w_pc = "call"

WriteFrame ==
    /\ UNCHANGED <<pathVars, sseVars, frameVars, agentVars, rpcVars,
                   editVars, sessVars, auxVars>>
    /\ UNCHANGED <<w_fs0, w_root, w_tool, w_mode, w_target, w_payload,
                   w_allow>>

\* The agent runs write_file.
RunWriteFile ==
    /\ w_pc = "call" /\ w_tool = "write_file"
    /\ w_result' = WriteFileRun(w_fs, w_root, w_target, w_payload, w_allow)
    /\ w_fs' = w_result'.fs
    /\ w_pc' = "ret"
    /\ WriteFrame

\* The agent runs edit_file or streaming_edit_file.
RunEditFile ==
    /\ w_pc = "call" /\ w_tool \in {"edit_file", "streaming_edit_file"}
    /\ w_result' = EditFileRun(w_fs, w_root, w_target, w_mode, w_payload,
                               w_allow)
    /\ w_fs' = w_result'.fs
    /\ w_pc' = "ret"
    /\ WriteFrame

\* The agent runs the same write_file call a second time, on the file system
\* the first run left.
RunWriteFileAgain ==
    /\ w_pc = "ret" /\ w_tool = "write_file"
    /\ w_again' = WriteFileRun(w_fs, w_root, w_target, w_payload, w_allow)
    /\ w_fs' = w_again'.fs
    /\ w_pc' = "ret2"
    /\ UNCHANGED <<pathVars, sseVars, frameVars, agentVars, rpcVars,
                   editVars, sessVars, readVars, inlineVars, chatVars,
                   turnVars, aux2Vars>>
    /\ UNCHANGED <<w_fs0, w_root, w_tool, w_mode, w_target, w_payload,
                   w_allow, w_result>>

(***************************************************************************)
(* Session service: AIService (commands/ai_service.rs 18-176) over the     *)
(* session store (sdk/session.rs).  The service is shared by every command *)
(* invocation, so several calls are in flight at once; each lock               *)
(* acquisition is one step.                                                *)
(***************************************************************************)

MaxCreates == 2
MaxResets == 1
MaxMessages == 1

\* Command invocations that use the shared service at the same time.
Callers == {"first", "second"}

\* user_id: the commands pass "default_user" (ai_commands.rs 165, 722).
Users == {"default_user", "guest"}

\* A session id chosen by the front end (ai_commands.rs 675); generated ids
\* are 1, 2, ... and never collide with it.
ClientId == 0

\* Uuid::new_v4() (session.rs 35): a value no earlier call produced.
NewUuid(n) == n + 1

\* Utc::now() (session.rs 36).
Now(t) == t + 1

\* Session (session.rs 13-19) with the owner of CreateRequest
\* (ai_service.rs 134-139); updated_at is left out.
Session(id, user, name, now) ==
    [id |-> id, user_id |-> user, name |-> name, messages |-> <<>>,
     created_at |-> now]

\* SessionStore::create (session.rs 34-49): the id is the supplied one or a
\* fresh uuid; the new, empty session is inserted under that id.
SessionStoreCreate_FreshId(store, id, user, name, uuid, now) ==
    LET sid == uuid
    IN [session |-> Session(sid, user, name, now),
        store |-> [k \in (DOMAIN store) \cup {sid} |->
                     IF k = sid THEN Session(sid, user, name, now)
                     ELSE store[k]]]
SessionStoreCreate(store, id, user, name, uuid, now) ==
    LET sid == IF id = None THEN uuid ELSE id[1]
    IN [session |-> Session(sid, user, name, now),
        store |-> [k \in (DOMAIN store) \cup {sid} |->
                     IF k = sid THEN Session(sid, user, name, now)
                     ELSE store[k]]]

\* HashMap::insert / HashMap::remove on user_sessions.
MapInsert(map, k, v) ==
    [x \in (DOMAIN map) \cup {k} |-> IF x = k THEN v ELSE map[x]]
MapRemove(map, k) == [x \in (DOMAIN map) \ {k} |-> map[x]]

CallOk(id) == [ok |-> TRUE, id |-> id]
CallErr == [ok |-> FALSE, id |-> -1]
NoReturn == [ok |-> FALSE, id |-> -2]

IdleCall ==
    [op |-> "none", pc |-> "idle", user |-> "default_user", sid |-> -1,
     ret |-> NoReturn, created |-> FALSE, after_reset |-> FALSE]

SessIdle ==
    /\ sessions = <<>>
    /\ user_sessions = <<>>
    /\ next_uuid = 0
    /\ clock = 0
    /\ svc_calls = [c \in Callers |-> IdleCall]
    /\ resets = 0
    /\ last_reset = [u \in Users |-> None]

\* AIService::new (ai_service.rs 25-30).
SessInit == SessIdle

SessFrame == UNCHANGED <<pathVars, sseVars, frameVars, agentVars, rpcVars,
                         editVars, writeVars, auxVars>>

CanStart(c) == svc_calls[c].pc \in {"idle", "ret"}

\* A command svc_calls get_or_create_session(user_id, app_name)
\* (ai_commands.rs 167, 725).
StartGetOrCreate(c, u) ==
    /\ CanStart(c)
    /\ svc_calls' = [svc_calls EXCEPT ![c] =
                   [op |-> "get_or_create", pc |-> "check", user |-> u,
                    sid |-> -1, ret |-> NoReturn, created |-> FALSE,
                    after_reset |-> last_reset[u] # None]]
    /\ UNCHANGED <<sessions, user_sessions, next_uuid, clock, resets,
                   last_reset>>
    /\ SessFrame

\* get_or_create_session, first block (ai_service.rs 125-130): under the
\* read lock, return the cached id when there is one.
GetCheck(c) ==
    /\ svc_calls[c].op = "get_or_create" /\ svc_calls[c].pc = "check"
    /\ IF svc_calls[c].user \in DOMAIN user_sessions
       THEN svc_calls' = [svc_calls EXCEPT ![c].pc = "ret",
                        ![c].ret = CallOk(user_sessions[svc_calls[c].user])]
       ELSE svc_calls' = [svc_calls EXCEPT ![c].pc = "create"]
    /\ UNCHANGED <<sessions, user_sessions, next_uuid, clock, resets,
                   last_reset>>
    /\ SessFrame

\* get_or_create_session, session_service.create(..).await with
\* session_id: None (ai_service.rs 133-143); no lock of user_sessions is
\* held here.
GetCreate(c) ==
    /\ svc_calls[c].op = "get_or_create" /\ svc_calls[c].pc = "create"
    /\ clock < MaxCreates
    /\ LET made == SessionStoreCreate(sessions, None, Some(svc_calls[c].user),
                                      None, NewUuid(next_uuid), Now(clock))
       IN /\ sessions' = made.store
          /\ svc_calls' = [svc_calls EXCEPT ![c].pc = "insert",
                         ![c].sid = made.session.id,
                         ![c].created = TRUE]
    /\ next_uuid' = NewUuid(next_uuid)
    /\ clock' = Now(clock)
    /\ UNCHANGED <<user_sessions, resets, last_reset>>
    /\ SessFrame

\* ... the create fails and `?` returns the error (ai_service.rs 141).
GetCreateFails(c) ==
    /\ svc_calls[c].op = "get_or_create" /\ svc_calls[c].pc = "create"
    /\ svc_calls' = [svc_calls EXCEPT ![c].pc = "ret", ![c].ret = CallErr]
    /\ UNCHANGED <<sessions, user_sessions, next_uuid, clock, resets,
                   last_reset>>
    /\ SessFrame

\* get_or_create_session, last block (ai_service.rs 145-151): under the
\* write lock, cache the id and return it.
GetInsert(c) ==
    /\ svc_calls[c].op = "get_or_create" /\ svc_calls[c].pc = "insert"
    /\ user_sessions' = MapInsert(user_sessions, svc_calls[c].user, svc_calls[c].sid)
    /\ svc_calls' = [svc_calls EXCEPT ![c].pc = "ret",
                   ![c].ret = CallOk(svc_calls[c].sid)]
    /\ UNCHANGED <<sessions, next_uuid, clock, resets, last_reset>>
    /\ SessFrame

\* reset_session (ai_service.rs 172-175), called by reset_ai_conversation
\* (ai_commands.rs 386-391).
ResetSession(u) ==
    /\ resets < MaxResets
    /\ user_sessions' = MapRemove(user_sessions, u)
    /\ resets' = resets + 1
    /\ last_reset' = [last_reset EXCEPT ![u] =
                        Some([n |-> resets + 1,
                              cached |-> IF u \in DOMAIN user_sessions
                                         THEN Some(user_sessions[u])
                                         ELSE None,
                              known |-> DOMAIN sessions])]
    /\ svc_calls' = [c \in Callers |->
                   IF svc_calls[c].user = u
                   THEN [svc_calls[c] EXCEPT !.after_reset = FALSE]
                   ELSE svc_calls[c]]
    /\ UNCHANGED <<sessions, next_uuid, clock>>
    /\ SessFrame

\* ask_ai_stream_with_session svc_calls validate_or_create_session(id, user_id,
\* app_name) (ai_commands.rs 745-748) with the id the front end sent or the
\* one get_or_create_session returned.
StartValidate(c, sid) ==
    /\ CanStart(c)
    /\ svc_calls' = [svc_calls EXCEPT ![c] =
                   [op |-> "validate_or_create", pc |-> "check",
                    user |-> "default_user",
                    sid |-> sid, ret |-> NoReturn, created |-> FALSE,
                    after_reset |-> FALSE]]
    /\ UNCHANGED <<sessions, user_sessions, next_uuid, clock, resets,
                   last_reset>>
    /\ SessFrame

\* validate_or_create_session: "if the id exists in the store, return it".
ValidateCheck(c) ==
    /\ svc_calls[c].op = "validate_or_create" /\ svc_calls[c].pc = "check"
    /\ IF svc_calls[c].sid \in DOMAIN sessions
       THEN svc_calls' = [svc_calls EXCEPT ![c].pc = "ret",
                        ![c].ret = CallOk(svc_calls[c].sid)]
       ELSE svc_calls' = [svc_calls EXCEPT ![c].pc = "create"]
    /\ UNCHANGED <<sessions, user_sessions, next_uuid, clock, resets,
                   last_reset>>
    /\ SessFrame

\* validate_or_create_session: "otherwise create with that id preserved".
ValidateCreate(c) ==
    /\ svc_calls[c].op = "validate_or_create" /\ svc_calls[c].pc = "create"
    /\ clock < MaxCreates
    /\ LET made == SessionStoreCreate(sessions, Some(svc_calls[c].sid),
                                      Some(svc_calls[c].user), None,
                                      NewUuid(next_uuid), Now(clock))
       IN /\ sessions' = made.store
          /\ svc_calls' = [svc_calls EXCEPT ![c].pc = "ret",
                         ![c].ret = CallOk(made.session.id),
                         ![c].created = TRUE]
    /\ clock' = Now(clock)
    /\ UNCHANGED <<user_sessions, next_uuid, resets, last_reset>>
    /\ SessFrame

\* SessionStore::append (session.rs 61-67): a running conversation adds a
\* message to its session.
StoreAppend(id) ==
    /\ id \in DOMAIN sessions
    /\ Len(sessions[id].messages) < MaxMessages
    /\ sessions' = [sessions EXCEPT ![id].messages = Append(@, "msg")]
    /\ UNCHANGED <<user_sessions, next_uuid, clock, svc_calls, resets,
                   last_reset>>
    /\ SessFrame

(***************************************************************************)
(* read_file (commands/ai_tools.rs 201-258), from the point where the file *)
(* has been read into `content`.  A file is a sequence of characters: "x", *)
(* carriage return and line feed.                                          *)
(***************************************************************************)
MaxReadBytes == 3

CR == "CR"
LF == "LF"
ReadChars == {"x", CR, LF}

\* str::split('\n'): the pieces between the line feeds, one more than there
\* are line feeds.
RECURSIVE SplitLF(_, _)
SplitLF(content, piece) ==
    IF content = <<>> THEN <<piece>>
    ELSE IF Head(content) = LF
    THEN <<piece>> \o SplitLF(Tail(content), <<>>)
    ELSE SplitLF(Tail(content), Append(piece, Head(content)))

\* content.contains("\r\n").
UsesCrlf(content) ==
    \E i \in 1..(Len(content) - 1) : content[i] = CR /\ content[i + 1] = LF

\* line.strip_suffix('\r').unwrap_or(line).
StripSuffixCR(line) ==
    IF line # <<>> /\ line[Len(line)] = CR
    THEN SubSeq(line, 1, Len(line) - 1)
    ELSE line

\* The line list of ReadFileTool::run (ai_tools.rs 212-223).
FileLines(content) ==
    LET pieces == SplitLF(content, <<>>) IN
    [i \in DOMAIN pieces |->
        IF UsesCrlf(content) THEN StripSuffixCR(pieces[i]) ELSE pieces[i]]

\* lines.len().max(1) (ai_tools.rs 224).
TotalLines(content) ==
    IF Len(FileLines(content)) >= 1 THEN Len(FileLines(content)) ELSE 1

\* Option<u32>::unwrap_or.
UnwrapOr(opt, default) == IF opt = None THEN default ELSE opt[1]

\* lines[start_idx..end_idx]: the slice, or a panic when the range is not
\* inside the list.
SliceOf(lines, start_idx, end_idx) ==
    IF start_idx <= end_idx /\ end_idx <= Len(lines)
    THEN [panic |-> FALSE, items |-> SubSeq(lines, start_idx + 1, end_idx)]
    ELSE [panic |-> TRUE, items |-> <<>>]

\* [String]::join(line_ending).
RECURSIVE JoinWith(_, _)
JoinWith(lines, line_ending) ==
    IF lines = <<>> THEN <<>>
    ELSE IF Len(lines) = 1 THEN lines[1]
    ELSE lines[1] \o line_ending \o JoinWith(Tail(lines), line_ending)

ReadOk(lines, content, start_line, end_line, total_lines) ==
    [ok |-> TRUE, panic |-> FALSE, err |-> "", lines |-> lines,
     content |-> content, start_line |-> start_line, end_line |-> end_line,
     total_lines |-> total_lines]
ReadErr(err) ==
    [ok |-> FALSE, panic |-> FALSE, err |-> err, lines |-> <<>>,
     content |-> <<>>, start_line |-> 0, end_line |-> 0, total_lines |-> 0]
ReadPanic ==
    [ok |-> FALSE, panic |-> TRUE, err |-> "panic", lines |-> <<>>,
     content |-> <<>>, start_line |-> 0, end_line |-> 0, total_lines |-> 0]

\* read_file whose upper bound check is one line too strict.
ReadLines_ExclusiveEnd(content, start, end) ==
    LET lines == FileLines(content)
        total_lines == TotalLines(content)
        start_line == UnwrapOr(start, 1)
        end_line == UnwrapOr(end, total_lines)
    IN IF start_line < 1 \/ end_line < start_line \/ end_line >= total_lines
       THEN ReadErr("out of bounds")
       ELSE ReadOk(SubSeq(lines, start_line, end_line), <<>>, start_line,
                   end_line, total_lines)

\* ReadFileTool::run (ai_tools.rs 212-258) on the content read.
ReadLines(content, start, end) ==
    LET lines == FileLines(content)
        line_ending == IF UsesCrlf(content) THEN <<CR, LF>> ELSE <<LF>>
        total_lines == TotalLines(content)
        start_line == UnwrapOr(start, 1)
        end_line == UnwrapOr(end, total_lines)
    IN IF start_line < 1 THEN ReadErr("start_line must be >= 1")
       ELSE IF end_line < start_line
       THEN ReadErr("end_line must be >= start_line")
       ELSE IF end_line > total_lines
       THEN ReadErr("end_line is out of bounds")
       ELSE LET selected == SliceOf(lines, start_line - 1, end_line) IN
            IF selected.panic THEN ReadPanic
            ELSE ReadOk(selected.items,
                        JoinWith(selected.items, line_ending),
                        start_line, end_line, total_lines)

ReadIdle ==
    /\ r_content = <<>> /\ r_start = None /\ r_end = None
    /\ r_result = ReadErr("none") /\ r_pc = "idle"

\* start_line and end_line are u32 values or absent.
LineArgs == {None} \cup {Some(n) : n \in 0..(MaxReadBytes + 2)}

ReadInit ==
    /\ r_content \in SeqsUpTo(ReadChars, MaxReadBytes)
    /\ r_start \in LineArgs /\ r_end \in LineArgs
    /\ r_result = ReadErr("none") /\ r_pc = "call"

\* The agent runs read_file on a readable file of the project.
RunReadFile ==
    /\ r_pc = "call"
    /\ r_result' = ReadLines(r_content, r_start, r_end)
    /\ r_pc' = "ret"
    /\ UNCHANGED <<r_content, r_start, r_end, w_again, inlineVars, chatVars,
                   turnVars, aux2Vars>>
    /\ UNCHANGED <<pathVars, sseVars, frameVars, agentVars, rpcVars,
                   editVars, writeVars, sessVars>>

(***************************************************************************)
(* get_inline_completion (commands/ai_commands.rs 401-436): the split of   *)
(* `content` at cursor_pos.  A String is UTF-8: the character "a" is one   *)
(* byte, the character "e'" (e acute) is a lead byte and a continuation    *)
(* byte; len() and the slice indices count bytes.                          *)
(***************************************************************************)
MaxInlineChars == 3

InlineChars == {"a", "e'"}

\* The UTF-8 encoding of a character.
Utf8(ch) == IF ch = "a" THEN <<"61">> ELSE <<"C3", "A9">>

\* The bytes of a String.
RECURSIVE Utf8Bytes(_)
Utf8Bytes(chars) ==
    IF chars = <<>> THEN <<>> ELSE Utf8(Head(chars)) \o Utf8Bytes(Tail(chars))

\* str::is_char_boundary(index): the start, the end, or a byte that is not a
\* continuation byte.
IsCharBoundary(bytes, index) ==
    \/ index = 0
    \/ index = Len(bytes)
    \/ index < Len(bytes) /\ bytes[index + 1] # "A9"

\* &content[..end]: panics unless end is a char boundary inside the string.
SliceTo(bytes, end) ==
    IF end <= Len(bytes) /\ IsCharBoundary(bytes, end)
    THEN [panic |-> FALSE, bytes |-> SubSeq(bytes, 1, end)]
    ELSE [panic |-> TRUE, bytes |-> <<>>]

\* &content[begin..]: panics unless begin is a char boundary.
SliceFrom(bytes, begin) ==
    IF begin <= Len(bytes) /\ IsCharBoundary(bytes, begin)
    THEN [panic |-> FALSE, bytes |-> SubSeq(bytes, begin + 1, Len(bytes))]
    ELSE [panic |-> TRUE, bytes |-> <<>>]

InlinePrompt(before, after) ==
    [kind |-> "prompt", before |-> before, after |-> after]
InlineEnded(kind) == [kind |-> kind, before |-> <<>>, after |-> <<>>]

\* get_inline_completion up to the prompt (ai_commands.rs 412-436).
InlineSplit(content, cursor_pos, api_key) ==
    IF api_key = "" THEN InlineEnded("API key is required")
    ELSE LET before == IF cursor_pos <= Len(content)
                       THEN SliceTo(content, cursor_pos)
                       ELSE [panic |-> FALSE, bytes |-> content]
             after == IF cursor_pos < Len(content)
                      THEN SliceFrom(content, cursor_pos)
                      ELSE [panic |-> FALSE, bytes |-> <<>>]
         IN IF before.panic \/ after.panic THEN InlineEnded("panic")
            ELSE InlinePrompt(before.bytes, after.bytes)

InlineIdle ==
    /\ ic_content = <<>> /\ ic_cursor = 0 /\ ic_api_key = ""
    /\ ic_result = InlineEnded("none") /\ ic_pc = "idle"

InlineInit ==
    /\ ic_content \in SeqsUpTo(InlineChars, MaxInlineChars)
    /\ ic_cursor \in 0..(2 * MaxInlineChars + 1)
    /\ ic_api_key \in {"", "key"}
    /\ ic_result = InlineEnded("none") /\ ic_pc = "call"

\* The editor asks for an inline completion.
GetInlineCompletion ==
    /\ ic_pc = "call"
    /\ ic_result' = InlineSplit(Utf8Bytes(ic_content), ic_cursor, ic_api_key)
    /\ ic_pc' = "ret"
    /\ UNCHANGED <<ic_content, ic_cursor, ic_api_key, w_again, readVars,
                   chatVars, turnVars, aux2Vars>>
    /\ UNCHANGED <<pathVars, sseVars, frameVars, agentVars, rpcVars,
                   editVars, writeVars, sessVars>>

(***************************************************************************)
(* Chat session commands (commands/ai_commands.rs 578-670) over the global *)
(* CHAT_SESSIONS service.  A session of the service is its id and the      *)
(* "name" entry of its state.                                              *)
(***************************************************************************)
MaxChatCreates == 2
MaxRenames == 2

ChatNames == {"work", "play"}

ChatRet(op, ok, id, name, list) ==
    [op |-> op, ok |-> ok, id |-> id, name |-> name, list |-> list]

ChatIdle ==
    /\ chat_store = <<>> /\ chat_uuid = 0
    /\ chat_ret = ChatRet("none", FALSE, -1, "", <<>>)
    /\ chat_asked = <<>> /\ chat_renames = 0

ChatFrame ==
    /\ UNCHANGED <<pathVars, sseVars, frameVars, agentVars, rpcVars,
                   editVars, writeVars, sessVars>>
    /\ UNCHANGED <<w_again, readVars, inlineVars, turnVars, aux2Vars>>

\* create_chat_session(name) (ai_commands.rs 596-612): the service creates
\* a session with a fresh id whose state holds the name.
CreateChatSession(name) ==
    /\ chat_uuid < MaxChatCreates
    /\ LET id == NewUuid(chat_uuid) IN
       /\ chat_store' = MapInsert(chat_store, id, name)
       /\ chat_asked' = MapInsert(chat_asked, id, name)
       /\ chat_ret' = ChatRet("create", TRUE, id, name, <<>>)
    /\ chat_uuid' = chat_uuid + 1
    /\ UNCHANGED chat_renames
    /\ ChatFrame

\* create_chat_session when the service's create fails (ai_commands.rs 609).
CreateChatSessionFails(name) ==
    /\ chat_uuid < MaxChatCreates
    /\ chat_ret' = ChatRet("create", FALSE, -1, name, <<>>)
    /\ UNCHANGED <<chat_store, chat_uuid, chat_asked, chat_renames>>
    /\ ChatFrame

\* list_chat_sessions (ai_commands.rs 615-647): per session its id and the
\* string under "name" in its state.
ListChatSessions ==
    /\ chat_ret' = ChatRet("list", TRUE, -1, "",
                           [id \in DOMAIN chat_store |-> chat_store[id]])
    /\ UNCHANGED <<chat_store, chat_uuid, chat_asked, chat_renames>>
    /\ ChatFrame

\* rename_chat_session(session_id, name) (ai_commands.rs 664-670): the
\* arguments are dropped and Ok(()) is returned.
RenameChatSession(session_id, name) ==
    /\ chat_renames < MaxRenames
    /\ chat_renames' = chat_renames + 1
    /\ chat_asked' = IF session_id \in DOMAIN chat_store
                     THEN MapInsert(chat_asked, session_id, name)
                     ELSE chat_asked
    /\ chat_ret' = ChatRet("rename", TRUE, session_id, name, <<>>)
    /\ UNCHANGED <<chat_store, chat_uuid>>
    /\ ChatFrame

\* delete_chat_session(session_id) (ai_commands.rs 650-661).
DeleteChatSession(session_id) ==
    /\ session_id \in DOMAIN chat_store
    /\ chat_store' = MapRemove(chat_store, session_id)
    /\ chat_asked' = MapRemove(chat_asked, session_id)
    /\ chat_ret' = ChatRet("delete", TRUE, session_id, "", <<>>)
    /\ UNCHANGED <<chat_uuid, chat_renames>>
    /\ ChatFrame

(***************************************************************************)
(* A streaming turn on a stored session: the handler has fetched the       *)
(* session's messages as the history and started the streaming agent       *)
(* (sdk/agent.rs); it persists the final messages with                     *)
(* SessionStore::replace_messages (sdk/session.rs 77-83) when the agent's  *)
(* Done event arrives.                                                     *)
(***************************************************************************)

\* replace_messages that extends the stored messages, as append_many does.
SessionStoreReplaceMessages_Extends(store, id, msgs) ==
    IF id \in DOMAIN store
    THEN [store EXCEPT ![id].messages = @ \o msgs]
    ELSE store

\* SessionStore::replace_messages (session.rs 77-83).
SessionStoreReplaceMessages(store, id, msgs) ==
    IF id \in DOMAIN store
    THEN [store EXCEPT ![id].messages = msgs]
    ELSE store

TurnIdle == h_pc = "idle" /\ p_taken = 0

\* The session of the turn holds the history the agent was started with.
TurnInit ==
    /\ h_pc = "stream" /\ p_taken = 0
    /\ sessions =
          (ClientId :> [Session(ClientId, "default_user", None, 0)
                           EXCEPT !.messages = history])
    /\ user_sessions = <<>> /\ next_uuid = 0 /\ clock = 0
    /\ svc_calls = [c \in Callers |-> IdleCall]
    /\ resets = 0
    /\ last_reset = [u \in Users |-> None]

TurnFrame ==
    /\ UNCHANGED <<pathVars, sseVars, frameVars, agentVars, rpcVars,
                   editVars, writeVars>>
    /\ UNCHANGED <<user_sessions, next_uuid, clock, svc_calls, resets,
                   last_reset>>
    /\ UNCHANGED <<w_again, readVars, inlineVars, chatVars, p_taken,
                   aux2Vars>>

\* The handler receives the Done event and stores its messages.
HandlerOnDone ==
    /\ h_pc = "stream"
    /\ a_events # <<>> /\ a_events[Len(a_events)].type = "Done"
    /\ sessions' = SessionStoreReplaceMessages(
                       sessions, ClientId, a_events[Len(a_events)].messages)
    /\ h_pc' = "done"
    /\ TurnFrame

\* The handler receives an error item: the turn ends, nothing is stored.
HandlerOnError ==
    /\ h_pc = "stream"
    /\ a_events # <<>> /\ a_events[Len(a_events)].type = "Err"
    /\ h_pc' = "error"
    /\ UNCHANGED sessions
    /\ TurnFrame

\* SessionStore::delete (session.rs 101-104), by a delete command that runs
\* during the turn.
StoreDelete(id) ==
    /\ h_pc = "stream"
    /\ id \in DOMAIN sessions
    /\ sessions' = MapRemove(sessions, id)
    /\ UNCHANGED h_pc
    /\ TurnFrame

(***************************************************************************)
(* The streaming agent reading the parser's events: the first provider     *)
(* stream of a run is the event stream of parse_sse_stream_with_debug,     *)
(* polled by the inner loop (agent.rs 166-202).  The parser handles its    *)
(* next line when the agent polls and no parsed event is waiting.  Later   *)
(* provider streams of the run deliver nothing.                            *)
(***************************************************************************)

\* stream.next() has to pull from the byte stream.
ParserPolled ==
    /\ a_pc = "stream" /\ iteration = 0
    /\ p_taken = Len(s_events)

PipeLine == ParserPolled /\ SseLine

PipeEnd == ParserPolled /\ SseEnd

\* The inner loop takes the next parsed event (agent.rs 166-202).
PipeRecv ==
    /\ a_pc = "stream" /\ iteration = 0
    /\ p_taken < Len(s_events)
    /\ p_taken' = p_taken + 1
    /\ received' = received + 1
    /\ LET ev == s_events[p_taken + 1] IN
       CASE ev.type = "TextDelta" ->
              /\ IF ev.text # ""
                 THEN /\ saw_output' = TRUE
                      /\ assistant_text' = assistant_text \o ev.text
                      /\ a_events' = Append(a_events, AgTextDelta(ev.text))
                 ELSE UNCHANGED <<saw_output, assistant_text, a_events>>
              /\ UNCHANGED <<tool_calls, stream_done, messages, a_pc,
                             tool_idx, turns>>
         [] ev.type = "ToolCall" ->
              /\ saw_output' = TRUE
              /\ tool_calls' = Append(tool_calls,
                                      NewToolCall(ev.id, ev.name, ev.text))
              /\ UNCHANGED <<assistant_text, a_events, stream_done, messages,
                             a_pc, tool_idx, turns>>
         [] ev.type = "Raw" ->
              /\ a_events' = IF debug_raw
                             THEN Append(a_events, AgDebug(ev.text))
                             ELSE a_events
              /\ UNCHANGED <<saw_output, assistant_text, tool_calls,
                             stream_done, messages, a_pc, tool_idx, turns>>
         [] ev.type = "Done" ->
              /\ stream_done' = TRUE
              /\ IF saw_output THEN TurnOver
                 ELSE UNCHANGED <<messages, a_events, a_pc, tool_idx, turns>>
              /\ UNCHANGED <<saw_output, assistant_text, tool_calls>>
         [] ev.type = "Err" ->
              /\ a_events' = Append(a_events, AgErr("Stream error"))
              /\ turns' = Append(turns,
                                 [calls |-> Len(tool_calls), ok |-> FALSE])
              /\ a_pc' = "end"
              /\ UNCHANGED <<saw_output, assistant_text, tool_calls,
                             stream_done, messages, tool_idx>>
    /\ UNCHANGED <<max_iterations, history, iteration, requests,
                   tool_outcome, streaming, a_result, rx_dropped_at>>
    /\ UNCHANGED <<pathVars, sseVars, frameVars, rpcVars, editVars,
                   writeVars, sessVars>>
    /\ UNCHANGED <<w_again, readVars, inlineVars, chatVars, h_pc, aux2Vars>>

\* stream.next() yields None: the parser's stream has ended and every event
\* was taken (a later stream ends at once).
PipeStreamEnds ==
    /\ iteration = 0 => (s_pc = "closed" /\ p_taken = Len(s_events))
    /\ StreamEnds

AgainIdle == w_again = ToolErr(Fs0, "none")

(***************************************************************************)
(* AGENT, run and run_streaming on the same model turns  (sdk/agent.rs     *)
(* 80-124 and 143-280).  A turn is what the model answers to one request:  *)
(* its text and its tool_calls (absent, an empty list, or calls).  run     *)
(* gets it as the first choice's message; run_streaming gets it as the     *)
(* events TextDelta (when the text is not empty), one ToolCall per call,   *)
(* Done.  Every tool answers "out".                                        *)
(***************************************************************************)
MaxScript == 2

ScriptTurns ==
    [text : {"", "Hi"},
     calls : {None, Some(<<>>),
              Some(<<NewToolCall("c1", "read_file", "{}")>>)}]

\* The first choice's message of the non-streaming response.
AnswerOf(turn) ==
    [role |-> "assistant",
     content |-> IF turn.text = "" THEN None ELSE Some(turn.text),
     tool_calls |-> turn.calls, tool_call_id |-> None]

\* The tool messages pushed for the calls of one turn, in order.
RECURSIVE ToolResultsOf(_)
ToolResultsOf(calls) ==
    IF calls = <<>> THEN <<>>
    ELSE <<MessageToolResult(Head(calls).id,
              ResultText(RunTool(Head(calls).name,
                                 [ok |-> TRUE, text |-> "out"])).text)>>
         \o ToolResultsOf(Tail(calls))

\* Agent::run from its loop on (agent.rs 84-123): `left` iterations remain.
RECURSIVE AgentRun(_, _, _)
AgentRun(msgs, script, left) ==
    IF left = 0
    THEN [ok |-> FALSE, text |-> MaxIterationsError, messages |-> <<>>]
    ELSE LET assistant_message == AnswerOf(Head(script))
             pushed == Append(msgs, assistant_message)
         IN IF assistant_message.tool_calls # None
            THEN AgentRun(pushed
                            \o ToolResultsOf(assistant_message.tool_calls[1]),
                          Tail(script), left - 1)
            ELSE [ok |-> TRUE, text |-> MessageText(assistant_message),
                  messages |-> pushed]

\* The spawned task of run_streaming from its loop on (agent.rs 148-279),
\* up to its terminal item: Done{final_text, messages} or the error.
RECURSIVE AgentRunStreaming(_, _, _)
AgentRunStreaming(msgs, script, left) ==
    IF left = 0
    THEN [ok |-> FALSE, text |-> MaxIterationsError, messages |-> <<>>]
    ELSE LET text == Head(script).text
             calls == IF Head(script).calls = None THEN <<>>
                      ELSE Head(script).calls[1]
         IN IF calls = <<>>
            THEN [ok |-> TRUE, text |-> text,
                  messages |-> IF text # ""
                               THEN Append(msgs, MessageAssistantText(text))
                               ELSE msgs]
            ELSE AgentRunStreaming(
                     Append(msgs, MessageAssistantWithToolCalls(
                                      IF text = "" THEN None ELSE Some(text),
                                      calls))
                       \o ToolResultsOf(calls),
                     Tail(script), left - 1)

CmpIdle ==
    /\ cmp_script = <<>> /\ cmp_max = 0
    /\ cmp_run = NoResult /\ cmp_stream = NoResult /\ cmp_pc = "idle"

\* One turn per request the loop can make.
CmpInit ==
    /\ cmp_script \in [1..MaxScript -> ScriptTurns]
    /\ cmp_max \in 0..MaxScript
    /\ cmp_run = NoResult /\ cmp_stream = NoResult /\ cmp_pc = "call"

\* Everything but the variables of the sections that follow.
BaseUnchanged ==
    /\ UNCHANGED <<pathVars, sseVars, frameVars, agentVars, rpcVars,
                   editVars, writeVars, sessVars>>
    /\ UNCHANGED <<w_again, readVars, inlineVars, chatVars, turnVars>>

CmpFrame ==
    /\ BaseUnchanged
    /\ UNCHANGED <<cmp_script, cmp_max, lockVars, askVars, chanVars,
                   lspVars>>

\* agent.run("ask", <<>>).
CallRun ==
    /\ cmp_pc = "call"
    /\ cmp_run' = AgentRun(<<MessageUser("ask")>>, cmp_script, cmp_max)
    /\ cmp_pc' = "ran"
    /\ UNCHANGED cmp_stream
    /\ CmpFrame

\* agent.run_streaming("ask", <<>>) with the stream read to its end.
CallRunStreaming ==
    /\ cmp_pc = "ran"
    /\ cmp_stream' =
          AgentRunStreaming(<<MessageUser("ask")>>, cmp_script, cmp_max)
    /\ cmp_pc' = "ret"
    /\ UNCHANGED cmp_run
    /\ CmpFrame

(***************************************************************************)
(* SESSION STORE under concurrent calls  (sdk/session.rs 61-99).  Tasks    *)
(* call append, append_many, replace_messages and clear on one session at  *)
(* the same time.  Each call takes the write guard of the RwLock, changes  *)
(* the session's Vec<Message> and drops the guard when it returns;         *)
(* Vec::extend pushes the batch one message at a time.                     *)
(***************************************************************************)
MaxBatch == 2

LockTasks == {"t1", "t2", "t3"}
StoreOps == {"append", "append_many", "replace_messages", "clear"}

\* The messages a task passes in: message n of task t.
TaskMessage(t, n) == [by |-> t, n |-> n]
ArgsOf(t, op) ==
    CASE op = "append" -> <<TaskMessage(t, 1)>>
      [] op = "append_many" -> [n \in 1..MaxBatch |-> TaskMessage(t, n)]
      [] op = "replace_messages" -> <<TaskMessage(t, 1)>>
      [] op = "clear" -> <<>>

StoredBefore == <<TaskMessage("t0", 1)>>

LockIdle ==
    /\ lk_holder = "none" /\ lk_msgs = <<>>
    /\ lk_tasks = <<>> /\ lk_order = <<>>

LockInit ==
    /\ lk_holder = "none" /\ lk_msgs = StoredBefore
    /\ lk_tasks \in [LockTasks -> [op : StoreOps, pc : {"call"}, pushed : {0}]]
    /\ lk_order = <<>>

LockFrame == BaseUnchanged /\ UNCHANGED <<cmpVars, askVars, chanVars, lspVars>>

\* Mutant: the guard is handed out while another task holds it.
WriteLock_Shared(t) ==
    /\ lk_tasks[t].pc = "call"
    /\ lk_holder' = t
    /\ lk_tasks' = [lk_tasks EXCEPT ![t].pc = "locked"]
    /\ lk_order' = Append(lk_order, t)
    /\ UNCHANGED lk_msgs
    /\ LockFrame

\* self.sessions.write().await (session.rs 62, 70, 78, 94): the task gets
\* the guard once no other task holds it.
WriteLock(t) ==
    /\ lk_tasks[t].pc = "call"
    /\ lk_holder = "none"
    /\ lk_holder' = t
    /\ lk_tasks' = [lk_tasks EXCEPT ![t].pc = "locked"]
    /\ lk_order' = Append(lk_order, t)
    /\ UNCHANGED lk_msgs
    /\ LockFrame

\* session.messages.push(message) (session.rs 64).
Push(t) ==
    /\ lk_tasks[t].pc = "locked" /\ lk_tasks[t].op = "append"
    /\ lk_msgs' = Append(lk_msgs, TaskMessage(t, 1))
    /\ lk_tasks' = [lk_tasks EXCEPT ![t].pc = "changed"]
    /\ UNCHANGED <<lk_holder, lk_order>>
    /\ LockFrame

\* session.messages.extend(messages) (session.rs 72), one message of the
\* batch per step.
ExtendOne(t) ==
    /\ lk_tasks[t].pc = "locked" /\ lk_tasks[t].op = "append_many"
    /\ lk_msgs' = Append(lk_msgs, TaskMessage(t, lk_tasks[t].pushed + 1))
    /\ lk_tasks' = [lk_tasks EXCEPT
                      ![t].pushed = @ + 1,
                      ![t].pc = IF lk_tasks[t].pushed + 1 = MaxBatch
                                THEN "changed" ELSE "locked"]
    /\ UNCHANGED <<lk_holder, lk_order>>
    /\ LockFrame

\* session.messages = messages (session.rs 80).
Assign(t) ==
    /\ lk_tasks[t].pc = "locked" /\ lk_tasks[t].op = "replace_messages"
    /\ lk_msgs' = ArgsOf(t, "replace_messages")
    /\ lk_tasks' = [lk_tasks EXCEPT ![t].pc = "changed"]
    /\ UNCHANGED <<lk_holder, lk_order>>
    /\ LockFrame

\* session.messages.clear() (session.rs 96).
ClearAll(t) ==
    /\ lk_tasks[t].pc = "locked" /\ lk_tasks[t].op = "clear"
    /\ lk_msgs' = <<>>
    /\ lk_tasks' = [lk_tasks EXCEPT ![t].pc = "changed"]
    /\ UNCHANGED <<lk_holder, lk_order>>
    /\ LockFrame

\* The call returns and its guard is dropped (session.rs 67, 75, 83, 99).
DropGuard(t) ==
    /\ lk_tasks[t].pc = "changed"
    /\ lk_holder' = IF lk_holder = t THEN "none" ELSE lk_holder
    /\ lk_tasks' = [lk_tasks EXCEPT ![t].pc = "done"]
    /\ UNCHANGED <<lk_msgs, lk_order>>
    /\ LockFrame

(***************************************************************************)
(* Turns on a chat session  (commands/ai_commands.rs 674-790).  The        *)
(* session commands work on the global CHAT_SESSIONS service               *)
(* (ai_commands.rs 21, 578-583); ask_ai_stream_with_session works on the   *)
(* session_service that AIService::new creates for AI_SERVICE              *)
(* (ai_commands.rs 18, 24-29; ai_service.rs 27), which is also the one its *)
(* runner stores the conversation in (ai_service.rs 163).                  *)
(***************************************************************************)
MaxAsks == 2

AskRet(id, events, after_delete) ==
    [id |-> id, history |-> events, after_delete |-> after_delete]

TurnEvent(author, session_id) ==
    [author |-> author, listed |-> session_id \in DOMAIN chat_store]

AskIdle ==
    /\ ai_store = <<>> /\ ask_ret = AskRet(-1, <<>>, FALSE) /\ asks = 0

\* validate_or_create_session(session_id): the id when the store has it,
\* else a new, empty session created under that id.
ValidateOrCreateSession(store, session_id) ==
    IF session_id \in DOMAIN store THEN store
    ELSE MapInsert(store, session_id, <<>>)

\* ask_ai_stream_with_session(session_id, ..) with an id of the front end
\* (ai_commands.rs 722-790): the session is validated or created in
\* AI_SERVICE's store and the runner runs on it, adding the turn's events to
\* what the session held.  An event records whether the chat session was
\* listed when the turn was made; after_delete records that the id was one
\* that create_chat_session returned and delete_chat_session removed.
AskAiStreamWithSession(session_id) ==
    /\ asks < MaxAsks
    /\ asks' = asks + 1
    /\ LET validated == ValidateOrCreateSession(ai_store, session_id) IN
       /\ ask_ret' = AskRet(session_id, validated[session_id],
                            /\ session_id <= chat_uuid
                            /\ session_id \notin DOMAIN chat_store)
       /\ ai_store' = [validated EXCEPT
                          ![session_id] =
                             @ \o <<TurnEvent("user", session_id),
                                    TurnEvent("model", session_id)>>]
    /\ UNCHANGED <<chatVars, cmpVars, lockVars, chanVars, lspVars>>
    /\ UNCHANGED <<pathVars, sseVars, frameVars, agentVars, rpcVars,
                   editVars, writeVars, sessVars>>
    /\ UNCHANGED <<w_again, readVars, inlineVars, turnVars>>

(***************************************************************************)
(* The channel between the spawned task and the consumer  (sdk/agent.rs    *)
(* 141: mpsc::channel(64); 282: ReceiverStream::new(rx)).  Every event the *)
(* task sends is the last thing its step does, with `tx.send(..).await`:   *)
(* the send completes once the channel has room, and the task goes on only *)
(* then.  a_events lists the task's sends; the first ch_sent of them have  *)
(* completed.  The capacity is scaled down from 64 so that a run fills the *)
(* channel.                                                                *)
(***************************************************************************)
ChannelCapacity == 2

ChanIdle == ch_sent = 0 /\ ch_queue = <<>> /\ ch_received = <<>>

ChanFrame ==
    /\ UNCHANGED <<pathVars, sseVars, frameVars, agentVars, rpcVars,
                   editVars, writeVars, sessVars>>
    /\ UNCHANGED <<w_again, readVars, inlineVars, chatVars, turnVars>>
    /\ UNCHANGED <<cmpVars, lockVars, askVars, lspVars>>

\* The task is suspended in tx.send(..).await.
SendPending == ch_sent < Len(a_events)

\* A step of the task: it is not suspended in a send.
Producer(step) == ~SendPending /\ step

\* Mutant: the send completes whether or not the channel has room.
ChannelSend_Unbounded ==
    /\ SendPending
    /\ ch_queue' = Append(ch_queue, a_events[ch_sent + 1])
    /\ ch_sent' = ch_sent + 1
    /\ UNCHANGED ch_received
    /\ ChanFrame

\* tx.send(event).await completes: the channel has room for the event
\* (agent.rs 157, 172, 182, 198, 208, 230, 262, 274).
ChannelSend ==
    /\ SendPending
    /\ Len(ch_queue) < ChannelCapacity
    /\ ch_queue' = Append(ch_queue, a_events[ch_sent + 1])
    /\ ch_sent' = ch_sent + 1
    /\ UNCHANGED ch_received
    /\ ChanFrame

\* The consumer polls the ReceiverStream and gets the oldest event
\* (agent.rs 282).
ConsumerNext ==
    /\ ch_queue # <<>>
    /\ ch_received' = Append(ch_received, Head(ch_queue))
    /\ ch_queue' = Tail(ch_queue)
    /\ UNCHANGED ch_sent
    /\ ChanFrame

(***************************************************************************)
(* LSP MANAGER, document versions  (lsp/manager.rs 169-197,                *)
(* lsp/transport.rs 23-33, 274-283).  The lsp_did_open and lsp_did_change  *)
(* commands run as concurrent tasks.  Each takes the write lock of         *)
(* doc_versions for the block that sets the version, releases it, builds   *)
(* the params and writes the notification under the stdin mutex.           *)
(***************************************************************************)
MaxLspCalls == 2

LspTasks == {"c1", "c2"}
LspPaths == {"a.rs", "b.rs"}

Notification(method, path, version) ==
    [method |-> method, path |-> path, version |-> version]

LspIdle == doc_versions = <<>> /\ lsp_calls = <<>> /\ lsp_wire = <<>>

\* Every task makes up to MaxLspCalls calls, one after the other.
LspInit ==
    /\ doc_versions = <<>>
    /\ lsp_calls = [c \in LspTasks |->
                      [op |-> "none", path |-> "a.rs", pc |-> "idle",
                       version |-> 0, made |-> 0]]
    /\ lsp_wire = <<>>

LspFrame ==
    /\ BaseUnchanged
    /\ UNCHANGED <<cmpVars, lockVars, askVars, chanVars>>

LspCanCall(c) ==
    lsp_calls[c].pc \in {"idle", "ret"} /\ lsp_calls[c].made < MaxLspCalls

\* did_open up to the end of its locked block (manager.rs 170-177):
\* versions.insert(path, 1).
DidOpenReset(c) ==
    /\ LspCanCall(c)
    /\ \E path \in LspPaths :
         /\ doc_versions' = MapInsert(doc_versions, path, 1)
         /\ lsp_calls' = [lsp_calls EXCEPT ![c] =
                [op |-> "did_open", path |-> path, pc |-> "send",
                 version |-> 1, made |-> lsp_calls[c].made + 1]]
    /\ UNCHANGED lsp_wire
    /\ LspFrame

\* did_open: create_did_open_params(path, content, 1) and
\* send_notification (manager.rs 179-181; transport.rs 23-33).
DidOpenSend(c) ==
    /\ lsp_calls[c].op = "did_open" /\ lsp_calls[c].pc = "send"
    /\ lsp_wire' = Append(lsp_wire,
           Notification("textDocument/didOpen", lsp_calls[c].path, 1))
    /\ lsp_calls' = [lsp_calls EXCEPT ![c].pc = "ret"]
    /\ UNCHANGED doc_versions
    /\ LspFrame

\* did_change up to the end of its locked block (manager.rs 185-193):
\* *versions.entry(path).or_insert(0) += 1, and the value is kept.
DidChangeBump(c) ==
    /\ LspCanCall(c)
    /\ \E path \in LspPaths :
         LET v == (IF path \in DOMAIN doc_versions THEN doc_versions[path]
                   ELSE 0) + 1
         IN /\ doc_versions' = MapInsert(doc_versions, path, v)
            /\ lsp_calls' = [lsp_calls EXCEPT ![c] =
                   [op |-> "did_change", path |-> path, pc |-> "send",
                    version |-> v, made |-> lsp_calls[c].made + 1]]
    /\ UNCHANGED lsp_wire
    /\ LspFrame

\* did_change: create_did_change_params(path, content, version) and
\* send_notification (manager.rs 195-197; transport.rs 23-33).
DidChangeSend(c) ==
    /\ lsp_calls[c].op = "did_change" /\ lsp_calls[c].pc = "send"
    /\ lsp_wire' = Append(lsp_wire,
           Notification("textDocument/didChange", lsp_calls[c].path,
                        lsp_calls[c].version))
    /\ lsp_calls' = [lsp_calls EXCEPT ![c].pc = "ret"]
    /\ UNCHANGED doc_versions
    /\ LspFrame

Aux2Idle == CmpIdle /\ LockIdle /\ AskIdle /\ ChanIdle /\ LspIdle
AuxIdle ==
    AgainIdle /\ ReadIdle /\ InlineIdle /\ ChatIdle /\ TurnIdle /\ Aux2Idle

ExtBaseIdle == RpcIdle /\ EditIdle /\ WriteIdle /\ SessIdle
ExtIdle == ExtBaseIdle /\ AuxIdle

(***************************************************************************)
(* Specifications.                                                         *)
(***************************************************************************)
InitPath == PathInit /\ SseIdle /\ FrameIdle /\ AgentIdle /\ ExtIdle
NextPath == ResolvePath
SpecPath == InitPath /\ [][NextPath]_vars

InitSse == SseInit /\ PathIdle /\ FrameIdle /\ AgentIdle /\ ExtIdle
NextSse == SseLine \/ SseEnd
SpecSse == InitSse /\ [][NextSse]_vars

InitFrame == SseInit /\ FrameInit /\ PathIdle /\ AgentIdle /\ ExtIdle
NextFrame == FrameChunk \/ FrameEnd
SpecFrame == InitFrame /\ [][NextFrame]_vars

InitAgent ==
    /\ AgentInit
    /\ debug_raw \in BOOLEAN
    /\ accumulators = EmptyMap /\ saw_finish = FALSE /\ s_events = <<>>
    /\ s_lines = <<>> /\ s_pc = "idle"
    /\ PathIdle /\ FrameIdle /\ ExtIdle
NextAgent ==
    \/ StreamOpen \/ StreamOpenFails \/ IterationsExhausted
    \/ RecvTextDelta \/ RecvToolCall \/ RecvRaw \/ RecvErr \/ RecvDone
    \/ StreamEnds \/ ToolStart \/ ToolFinish
    \/ Complete \/ CompleteFails \/ RunToolCall \/ RunExhausted
SpecAgent == InitAgent /\ [][NextAgent]_vars

\* The streaming run with a consumer that may drop the event stream.
InitDrop == InitAgent /\ streaming
NextDrop ==
    \/ StreamOpen \/ StreamOpenFails \/ IterationsExhausted
    \/ RecvTextDelta \/ RecvToolCall \/ RecvRaw \/ RecvErr \/ RecvDone
    \/ StreamEnds \/ ToolStart \/ ToolFinish \/ ConsumerDrops
SpecDrop == InitDrop /\ [][NextDrop]_vars

\* The streaming run on an empty history whose provider streams send text
\* in pieces, an empty piece among them.
TurnTexts == {"Hi", "!", ""}
RecvTextPiece == RecvText(TurnTexts)
InitText ==
    /\ InitAgent /\ streaming /\ ~debug_raw
    /\ history = <<>> /\ max_iterations >= 1
NextText ==
    \/ StreamOpen \/ IterationsExhausted
    \/ RecvTextPiece \/ RecvToolCall \/ RecvDone
    \/ StreamEnds \/ ToolStart \/ ToolFinish
SpecText == InitText /\ [][NextText]_vars

CoreIdle == PathIdle /\ SseIdle /\ FrameIdle /\ AgentIdle

BaseIdle ==
    /\ CoreIdle /\ ExtBaseIdle /\ AgainIdle /\ ReadIdle
    /\ InlineIdle /\ ChatIdle /\ TurnIdle

InitCmp ==
    CmpInit /\ BaseIdle /\ LockIdle /\ AskIdle /\ ChanIdle /\ LspIdle
NextCmp == CallRun \/ CallRunStreaming
SpecCmp == InitCmp /\ [][NextCmp]_vars

InitLock ==
    LockInit /\ BaseIdle /\ CmpIdle /\ AskIdle /\ ChanIdle /\ LspIdle
NextLock ==
    \E t \in LockTasks :
        \/ WriteLock(t) \/ Push(t) \/ ExtendOne(t) \/ Assign(t)
        \/ ClearAll(t) \/ DropGuard(t)
SpecLock == InitLock /\ [][NextLock]_vars

\* Both services start empty (ai_commands.rs 24-29, 578-583).
InitAsk == CoreIdle /\ ExtIdle
NextAsk ==
    \/ \E name \in ChatNames : CreateChatSession(name)
    \/ ListChatSessions
    \/ \E id \in 1..MaxChatCreates : DeleteChatSession(id)
    \/ \E id \in 1..MaxChatCreates : AskAiStreamWithSession(id)
SpecAsk == InitAsk /\ [][NextAsk]_vars

\* The streaming run with its bounded channel and a consumer that keeps the
\* stream.
InitChan == InitAgent /\ streaming /\ history = <<>> /\ ~debug_raw
NextChan ==
    \/ Producer(StreamOpen) \/ Producer(StreamOpenFails)
    \/ Producer(IterationsExhausted)
    \/ Producer(RecvTextDelta) \/ Producer(RecvToolCall)
    \/ Producer(RecvErr) \/ Producer(RecvDone)
    \/ Producer(StreamEnds) \/ Producer(ToolStart) \/ Producer(ToolFinish)
    \/ ChannelSend \/ ConsumerNext
SpecChan == InitChan /\ [][NextChan]_vars

InitFuzzy ==
    FuzzyInit /\ CoreIdle /\ RpcIdle /\ WriteIdle /\ SessIdle /\ AuxIdle
NextFuzzy == EditFile
SpecFuzzy == InitFuzzy /\ [][NextFuzzy]_vars

InitLsp ==
    LspInit /\ BaseIdle /\ CmpIdle /\ LockIdle /\ AskIdle /\ ChanIdle
NextLsp ==
    \E c \in LspTasks :
        \/ DidOpenReset(c) \/ DidOpenSend(c)
        \/ DidChangeBump(c) \/ DidChangeSend(c)
SpecLsp == InitLsp /\ [][NextLsp]_vars

InitRpc ==
    RpcInit /\ CoreIdle /\ EditIdle /\ WriteIdle /\ SessIdle /\ AuxIdle
NextRpc ==
    \/ RpcCheckApiKey \/ RpcCreateModel \/ RpcCreateAgent
    \/ RpcGetOrCreateSession \/ RpcValidateSession
    \/ RpcCreateEphemeralSession \/ RpcCreateRunner \/ RpcRun
    \/ RpcStreamEvent \/ RpcStreamError \/ RpcStreamEnd
SpecRpc == InitRpc /\ [][NextRpc]_vars

InitEdit ==
    EditInit /\ CoreIdle /\ RpcIdle /\ WriteIdle /\ SessIdle /\ AuxIdle
NextEdit == EditFile
SpecEdit == InitEdit /\ [][NextEdit]_vars

InitWrite ==
    WriteInit /\ CoreIdle /\ RpcIdle /\ EditIdle /\ SessIdle /\ AuxIdle
NextWrite == RunWriteFile \/ RunEditFile
SpecWrite == InitWrite /\ [][NextWrite]_vars

\* write_file run twice in a row with the same arguments.
InitRewrite == InitWrite /\ w_tool = "write_file"
NextRewrite == RunWriteFile \/ RunWriteFileAgain
SpecRewrite == InitRewrite /\ [][NextRewrite]_vars

InitRead ==
    /\ ReadInit /\ CoreIdle /\ ExtBaseIdle
    /\ AgainIdle /\ InlineIdle /\ ChatIdle /\ TurnIdle /\ Aux2Idle
NextRead == RunReadFile
SpecRead == InitRead /\ [][NextRead]_vars

InitInline ==
    /\ InlineInit /\ CoreIdle /\ ExtBaseIdle
    /\ AgainIdle /\ ReadIdle /\ ChatIdle /\ TurnIdle /\ Aux2Idle
NextInline == GetInlineCompletion
SpecInline == InitInline /\ [][NextInline]_vars

\* The service starts empty (InMemorySessionService::new()).
InitChat == CoreIdle /\ ExtIdle
NextChat ==
    \/ \E name \in ChatNames : CreateChatSession(name)
    \/ \E name \in ChatNames : CreateChatSessionFails(name)
    \/ ListChatSessions
    \/ \E id \in 1..MaxChatCreates, name \in ChatNames :
         RenameChatSession(id, name)
    \/ \E id \in 1..MaxChatCreates : DeleteChatSession(id)
SpecChat == InitChat /\ [][NextChat]_vars

\* A streaming turn with its handler and a session that may be deleted
\* meanwhile.
InitTurn ==
    /\ AgentInit /\ streaming
    /\ debug_raw \in BOOLEAN
    /\ accumulators = EmptyMap /\ saw_finish = FALSE /\ s_events = <<>>
    /\ s_lines = <<>> /\ s_pc = "idle"
    /\ PathIdle /\ FrameIdle /\ RpcIdle /\ EditIdle /\ WriteIdle
    /\ AgainIdle /\ ReadIdle /\ InlineIdle /\ ChatIdle /\ Aux2Idle
    /\ TurnInit
NextTurn ==
    \/ StreamOpen \/ StreamOpenFails \/ IterationsExhausted
    \/ RecvTextDelta \/ RecvToolCall \/ RecvRaw \/ RecvErr \/ RecvDone
    \/ StreamEnds \/ ToolStart \/ ToolFinish
    \/ HandlerOnDone \/ HandlerOnError \/ StoreDelete(ClientId)
SpecTurn == InitTurn /\ [][NextTurn]_vars

\* The streaming agent fed by the SSE parser.
InitPipe ==
    /\ AgentInit /\ streaming
    /\ history = <<>> /\ max_iterations >= 1
    /\ SseInit
    /\ PathIdle /\ FrameIdle /\ ExtIdle
NextPipe ==
    \/ StreamOpen \/ StreamOpenFails \/ IterationsExhausted
    \/ PipeLine \/ PipeEnd \/ PipeRecv \/ PipeStreamEnds
    \/ ToolStart \/ ToolFinish
SpecPipe == InitPipe /\ [][NextPipe]_vars

InitSession ==
    SessInit /\ CoreIdle /\ RpcIdle /\ EditIdle /\ WriteIdle /\ AuxIdle
NextSession ==
    \/ \E c \in Callers, u \in Users : StartGetOrCreate(c, u)
    \/ \E c \in Callers : GetCheck(c)
    \/ \E c \in Callers : GetCreate(c)
    \/ \E c \in Callers : GetCreateFails(c)
    \/ \E c \in Callers : GetInsert(c)
    \/ \E u \in Users : ResetSession(u)
    \/ \E c \in Callers :
         \E sid \in {ClientId} \cup DOMAIN sessions : StartValidate(c, sid)
    \/ \E c \in Callers : ValidateCheck(c)
    \/ \E c \in Callers : ValidateCreate(c)
    \/ \E id \in DOMAIN sessions : StoreAppend(id)
SpecSession == InitSession /\ [][NextSession]_vars

\* The store and its users without reset_session, which the store never
\* sees.
NextValidate ==
    \/ \E c \in Callers, u \in Users : StartGetOrCreate(c, u)
    \/ \E c \in Callers : GetCheck(c)
    \/ \E c \in Callers : GetCreate(c)
    \/ \E c \in Callers : GetCreateFails(c)
    \/ \E c \in Callers : GetInsert(c)
    \/ \E c \in Callers :
         \E sid \in {ClientId} \cup DOMAIN sessions : StartValidate(c, sid)
    \/ \E c \in Callers : ValidateCheck(c)
    \/ \E c \in Callers : ValidateCreate(c)
    \/ \E id \in DOMAIN sessions : StoreAppend(id)
SpecValidate == InitSession /\ [][NextValidate]_vars

(***************************************************************************)
(* Observations of the SSE parser's input and output used by the claims.   *)
(***************************************************************************)
Positions(evs, type) == {i \in DOMAIN evs : evs[i].type = type}

ChoiceHasText(ch) ==
    \/ ch.delta.content # "" \/ ch.delta.text # ""
    \/ ch.delta.reasoning # "" \/ ch.delta.reasoning_content # ""
    \/ ch.message.text # ""

\* The input as the parser walks it: one unit per [DONE] line and per choice
\* of a payload that decodes and has no error field.  A choice's text is
\* handled before its finish_reason.
RECURSIVE ChoiceUnits(_)
ChoiceUnits(choices) ==
    IF choices = <<>> THEN <<>>
    ELSE <<[fin |-> Head(choices).finish_reason,
            text |-> ChoiceHasText(Head(choices))]>>
         \o ChoiceUnits(Tail(choices))

RECURSIVE Units(_)
Units(lines) ==
    IF lines = <<>> THEN <<>>
    ELSE (CASE Head(lines).kind = "done" -> <<[fin |-> TRUE, text |-> FALSE]>>
            [] Head(lines).kind = "data" -> ChoiceUnits(Head(lines).choices)
            [] OTHER -> <<>>)
         \o Units(Tail(lines))

FinishSignals(lines) ==
    Cardinality({i \in DOMAIN Units(lines) : Units(lines)[i].fin})

TextAfterFinish(lines) ==
    LET u == Units(lines) IN
    \E i, j \in DOMAIN u : i < j /\ u[i].fin /\ u[j].text

OneDoneAfterToolCalls(evs) ==
    /\ Cardinality(Positions(evs, "Done")) = 1
    /\ \A t \in Positions(evs, "ToolCall") :
         \A d \in Positions(evs, "Done") : t < d

TextFollowsDone(evs) ==
    \E d \in Positions(evs, "Done") :
        \E t \in Positions(evs, "TextDelta") : d < t

(***************************************************************************)
(* Observations of an agent run used by the claims.                        *)
(***************************************************************************)
Last(seq) == seq[Len(seq)]

Terminal(ev) == ev.type \in {"Done", "Err"}

ToolEventsOf(evs) ==
    SelectSeq(evs, LAMBDA e : e.type \in {"ToolStart", "ToolResult"})

RECURSIVE SumCalls(_)
SumCalls(ts) == IF ts = <<>> THEN 0 ELSE Head(ts).calls + SumCalls(Tail(ts))

\* Every finished provider stream of the run delivered a tool call and no
\* error.
EveryTurnCalledTools == \A i \in DOMAIN turns : turns[i].ok /\ turns[i].calls >= 1

FailureTexts ==
    {"Error: " \o a.text : a \in {b \in ToolAnswers : ~b.ok}}
    \cup {"Error: Tool '" \o c.name \o "' not found" : c \in StreamToolCalls}

CallIds(msg) == [k \in DOMAIN msg.tool_calls[1] |-> msg.tool_calls[1][k].id]

IsAssistantWithCalls(msg) == msg.role = "assistant" /\ msg.tool_calls # None

\* The tool messages that directly follow position i of msgs.
RECURSIVE AnswersAfter(_, _)
AnswersAfter(msgs, i) ==
    IF i + 1 > Len(msgs) \/ msgs[i + 1].role # "tool" THEN <<>>
    ELSE <<msgs[i + 1]>> \o AnswersAfter(msgs, i + 1)

AnswerIds(msgs, i) ==
    [k \in DOMAIN AnswersAfter(msgs, i) |->
        AnswersAfter(msgs, i)[k].tool_call_id]

\* The assistant turn at position i has received all its tool results.
TurnAnswered(i) ==
    (\E j \in (i + 1)..Len(messages) : messages[j].role # "tool")
    \/ a_pc \notin {"tools", "running", "calling"}

\* Position of the nearest assistant message before j, 0 if there is none.
NearestAssistant(msgs, j) ==
    LET before == {i \in 1..(j - 1) : msgs[i].role = "assistant"} IN
    IF before = {} THEN 0 ELSE CHOOSE i \in before : \A k \in before : k <= i

ToolMessagesAnswerNearest(msgs, from) ==
    \A j \in (from + 1)..Len(msgs) :
        msgs[j].role = "tool" =>
            LET i == NearestAssistant(msgs, j) IN
            /\ i > 0
            /\ msgs[i].tool_calls # None
            /\ msgs[j].tool_call_id # None
            /\ \E k \in DOMAIN CallIds(msgs[i]) :
                   msgs[j].tool_call_id = Some(CallIds(msgs[i])[k])

\* C1: whenever resolve_and_validate_path(r, p) returns Ok(path), the
\* location that path denotes lies inside the canonicalised root r.
C1_OkPathInsideRoot ==
    (p_pc = "ret" /\ p_result.ok) =>
        IsPrefix(Canonicalize(p_root), Locate(<<>>, p_result.path))

SingleChunk(line) ==
    /\ line.kind = "data"
    /\ Len(line.choices) = 1
    /\ ~line.choices[1].finish_reason
    /\ ~ChoiceHasText(line.choices[1])
    /\ line.choices[1].message.tool_calls = <<>>
    /\ Len(line.choices[1].delta.tool_calls) = 1

ChunkOf(line) == line.choices[1].delta.tool_calls[1]

IsStreamedCall(lines) ==
    /\ Len(lines) >= 3
    /\ \A i \in 1..(Len(lines) - 1) : SingleChunk(lines[i])
    /\ ChunkOf(lines[1]).id # "" /\ ChunkOf(lines[1]).name # ""
    /\ \A i \in 2..(Len(lines) - 1) :
         /\ ChunkOf(lines[i]).index = ChunkOf(lines[1]).index
         /\ ChunkOf(lines[i]).id = "" /\ ChunkOf(lines[i]).name = ""
         /\ ChunkOf(lines[i]).arguments # ""
    /\ FinishSignals(lines) = 1
    /\ Units(<<lines[Len(lines)]>>) = <<[fin |-> TRUE, text |-> FALSE]>>

RECURSIVE JoinedArguments(_)
JoinedArguments(lines) ==
    IF Len(lines) <= 1 THEN ""
    ELSE ChunkOf(Head(lines)).arguments \o JoinedArguments(Tail(lines))

ToolCallsOf(evs) == SelectSeq(evs, LAMBDA e : e.type = "ToolCall")

\* C3: a tool call streamed as a head chunk (id, name) followed by argument
\* fragments of the same index is emitted at finish as exactly one ToolCall
\* with that id, that name and the fragments concatenated in arrival order.
C3_StreamedCallReassembled ==
    IsStreamedCall(s_lines) =>
        ToolCallsOf(s_events) =
            <<ToolCallEv(ChunkOf(s_lines[1]).id, ChunkOf(s_lines[1]).name,
                         JoinedArguments(s_lines))>>

\* C4: however the byte stream is cut into chunks, the parser yields the
\* events it yields for the same bytes delivered as one chunk.
C4_ChunkingIndependent ==
    s_pc = "closed" =>
        \A order \in IterationOrders(EmptyMap) :
            s_events = HandleChunk(ParserStart, f_wire, debug_raw, order).st.ev

\* C5: the ids of the ToolCall events of one parsed stream are pairwise
\* distinct.
C5_ToolCallIdsDistinct ==
    \A i, j \in Positions(s_events, "ToolCall") :
        s_events[i].id = s_events[j].id => i = j

\* C6: on the run's event stream a terminal item (Done or an error) is only
\* ever the last item, nothing follows it, and a run that has ended has
\* sent exactly one; so Done is sent at most once.
C6_OneTerminalItemLast ==
    /\ \A i \in DOMAIN a_events :
         Terminal(a_events[i]) => i = Len(a_events) /\ a_pc = "end"
    /\ (streaming /\ a_pc = "end") =>
           a_events # <<>> /\ Terminal(Last(a_events))

C6_Witness ==
    /\ streaming /\ a_pc = "end"
    /\ Last(a_events).type = "Done"
    /\ \E i \in DOMAIN a_events : a_events[i].type = "ToolResult"
    /\ \E i \in DOMAIN a_events : a_events[i].type = "TextDelta"

\* C7: no run issues more than max_iterations provider requests; a run in
\* which every provider stream delivers a tool call ends after exactly
\* max_iterations requests, with the ToolStart/ToolResult pair of every
\* call of those turns, then the max-iterations error, and without Done.
C7_MaxIterationsBound ==
    /\ requests <= max_iterations
    /\ (streaming /\ a_pc = "end" /\ EveryTurnCalledTools) =>
         /\ requests = max_iterations
         /\ Len(turns) = max_iterations
         /\ Last(a_events) = AgErr(MaxIterationsError)
         /\ \A i \in DOMAIN a_events : a_events[i].type # "Done"
         /\ Len(ToolEventsOf(a_events)) = 2 * SumCalls(turns)
         /\ \A i \in DOMAIN ToolEventsOf(a_events) :
              ToolEventsOf(a_events)[i].type =
                  IF i % 2 = 1 THEN "ToolStart" ELSE "ToolResult"

C7_Witness ==
    /\ streaming /\ a_pc = "end"
    /\ EveryTurnCalledTools
    /\ max_iterations = MaxIterations
    /\ requests = MaxIterations
    /\ Len(ToolEventsOf(a_events)) >= 2 * MaxIterations

\* C8: a step in which a tool fails (it returns an error or its name is not
\* registered) sends one ToolResult with success=false and an "Error: ..."
\* text, appends that text as the tool message of the call's id, sends no
\* error item, and leaves the task in its loop (next tool call, or next
\* iteration).
C8_ToolFailureIsData ==
    [][(a_pc = "running" /\ tool_outcome' \in {"err", "missing"}) =>
         LET call == tool_calls[tool_idx]
             ev == Last(a_events')
         IN /\ a_events' = Append(a_events, ev)
            /\ ev.type = "ToolResult" /\ ev.name = call.name
            /\ ~ev.success /\ ev.text \in FailureTexts
            /\ messages' = Append(messages,
                   [role |-> "tool", content |-> Some(ev.text),
                    tool_calls |-> None, tool_call_id |-> Some(call.id)])
            /\ \/ a_pc' = "tools" /\ tool_idx' = tool_idx + 1
                  /\ iteration' = iteration
               \/ a_pc' = "iter" /\ tool_idx = Len(tool_calls)
                  /\ iteration' = iteration + 1]_vars

C8_Witness ==
    /\ a_pc = "stream"
    /\ requests = 2
    /\ \E i \in DOMAIN a_events :
         a_events[i].type = "ToolResult" /\ ~a_events[i].success
    /\ \E i \in DOMAIN messages :
         messages[i].role = "tool"
         /\ messages[i].content = Some("Error: Tool 'ghost' not found")

\* C9: every assistant message with tool_calls that the agent appended is,
\* once its turn is over, followed by the tool messages of its calls: each
\* call id is the tool_call_id of exactly one of them, in the order of the
\* calls.
C9_EachCallAnsweredOnce ==
    \A i \in (Len(history) + 2)..Len(messages) :
        (IsAssistantWithCalls(messages[i]) /\ TurnAnswered(i)) =>
            /\ AnswerIds(messages, i) =
                   [k \in DOMAIN CallIds(messages[i]) |->
                       Some(CallIds(messages[i])[k])]
            /\ \A k \in DOMAIN CallIds(messages[i]) :
                 Cardinality({a \in DOMAIN AnswerIds(messages, i) :
                     AnswerIds(messages, i)[a] =
                         Some(CallIds(messages[i])[k])}) = 1

\* C10: in the run's message list, in the list every Done carries and in
\* AgentResult.messages, each tool message appended by the agent has a
\* tool_call_id that names a call of the nearest preceding assistant message.
C10_ToolMessageAnswersNearest ==
    /\ ToolMessagesAnswerNearest(messages, Len(history))
    /\ (~streaming /\ a_pc = "end" /\ a_result.ok) =>
           ToolMessagesAnswerNearest(a_result.messages, Len(history))
    /\ \A i \in DOMAIN a_events :
         a_events[i].type = "Done" =>
             ToolMessagesAnswerNearest(a_events[i].messages, Len(history))

C10_Witness ==
    /\ streaming /\ a_pc = "end"
    /\ a_events # <<>>
    /\ Last(a_events).type = "Done"
    /\ iteration = 1
    /\ \E j \in (Len(history) + 2)..Len(Last(a_events).messages) :
         Last(a_events).messages[j].role = "tool"

\* A send on the channel has failed: an item was sent after the consumer
\* dropped the receiver.
FailedSend == rx_dropped_at # -1 /\ Len(a_events) > rx_dropped_at

\* C11: after the first failed send the task issues no further provider
\* request and starts no further tool execution.
C11_StopsAfterFailedSend ==
    [][FailedSend =>
         /\ requests' = requests
         /\ ~(a_pc = "running" /\ a_pc' # "running")]_vars

DoneChunks == {i \in DOMAIN rpc_chunks : rpc_chunks[i].done}

\* C12: every invocation of a streaming RPC operation that has returned,
\* whatever failed, has sent exactly one chunk with done=true, as its last
\* chunk, with the failure in its error field, and has returned Ok.  (The
\* front end holds the channel: no send fails.)
C12_OneTerminalChunk ==
    (rpc_pc = "returned" /\ on_event_open) =>
        /\ rpc_return = "Ok"
        /\ DoneChunks = {Len(rpc_chunks)}
        /\ rpc_chunks # <<>>
        /\ rpc_failed # "none" =>
              rpc_chunks[Len(rpc_chunks)].error = Some(rpc_failed)

(***************************************************************************)
(* Observations of the edit engine used by the claims.                     *)
(***************************************************************************)
\* The resolved edits whose range starts at byte offset pos.
StartingAt(pos) ==
    {k \in DOMAIN e_result.resolved : e_result.resolved[k].start = pos}

\* The original content from offset pos on, with every resolved range met
\* on the way replaced by its new_text and every other byte kept.
RECURSIVE Rebuilt(_)
Rebuilt(pos) ==
    IF pos >= Len(e_content) THEN <<>>
    ELSE IF StartingAt(pos) # {}
    THEN LET r == e_result.resolved[CHOOSE k \in StartingAt(pos) : TRUE]
         IN r.new_text \o Rebuilt(IF r.end > pos THEN r.end ELSE pos + 1)
    ELSE <<e_content[pos + 1]>> \o Rebuilt(pos + 1)

RangesDisjoint(ranges) ==
    \A i, j \in DOMAIN ranges :
        i # j => (ranges[i].end <= ranges[j].start
                  \/ ranges[j].end <= ranges[i].start)

\* Every listing of the same edits in another order.
Reorderings(edits) ==
    {[i \in DOMAIN edits |-> edits[f[i]]] : f \in Permutations(DOMAIN edits)}

\* All start offsets at which pat occurs in content, overlapping or not.
Occurrences(content, pat) ==
    {i \in 0..(Len(content) - Len(pat)) :
        SubSeq(content, i + 1, i + Len(pat)) = pat}

RequestRanges == [k \in DOMAIN e_edits |-> ResolveOne(e_content, e_edits, k)]

SomeEditUnresolved == \E k \in DOMAIN e_edits : ~RequestRanges[k].ok

SomeRangesOverlap ==
    \E i, j \in DOMAIN e_edits :
        /\ i # j
        /\ RequestRanges[i].ok /\ RequestRanges[j].ok
        /\ RequestRanges[i].start < RequestRanges[j].end
        /\ RequestRanges[j].start < RequestRanges[i].end

\* C13: when Edit mode accepts the edits, the resolved ranges are disjoint
\* non-empty ranges of the original, and the written file is the original
\* with each resolved range replaced by its new_text once and every other
\* byte kept in place.
C13_EditsReplaceRangesOnly ==
    (e_pc = "ret" /\ e_result.ok) =>
        /\ RangesDisjoint(e_result.resolved)
        /\ \A k \in DOMAIN e_result.resolved :
             /\ 0 <= e_result.resolved[k].start
             /\ e_result.resolved[k].start < e_result.resolved[k].end
             /\ e_result.resolved[k].end <= Len(e_content)
        /\ e_disk = Rebuilt(0)

C13_Witness ==
    /\ e_pc = "ret" /\ e_result.ok
    /\ Len(e_edits) = 2
    /\ e_result.resolved[1].start < e_result.resolved[2].start
    /\ Len(e_result.resolved[1].new_text)
         # e_result.resolved[1].end - e_result.resolved[1].start
    /\ e_disk # e_content

\* C14: when Edit mode accepts the edits, it accepts them listed in any
\* other order too and writes the same file.
C14_OrderIndependent ==
    (e_pc = "ret" /\ e_result.ok) =>
        \A listed \in Reorderings(e_edits) :
            /\ EditMode(e_content, listed).ok
            /\ EditMode(e_content, listed).updated = e_disk

C14_Witness ==
    /\ e_pc = "ret" /\ e_result.ok
    /\ Len(e_edits) = 2
    /\ e_result.resolved[1].start > e_result.resolved[2].start
    /\ e_disk # e_content

\* C15: an edit whose old_text occurs at two or more start offsets of the
\* content (overlapping occurrences included) does not resolve, the tool
\* fails, and nothing is written.
C15_AmbiguousOldTextFails ==
    e_pc = "ret" =>
        \A k \in DOMAIN e_edits :
            Cardinality(Occurrences(e_content, e_edits[k].old_text)) >= 2 =>
                /\ ~RequestRanges[k].ok
                /\ ~e_result.ok
                /\ e_disk = e_content

\* C16: if an edit does not resolve, or two resolved ranges overlap
\* (wherever the two edits stand in the request), Edit mode fails; and
\* whenever it fails the file on disk is its content before the call.
C16_AllOrNothing ==
    e_pc = "ret" =>
        /\ (SomeEditUnresolved \/ SomeRangesOverlap) => ~e_result.ok
        /\ ~e_result.ok => e_disk = e_content

C16_Witness ==
    /\ e_pc = "ret" /\ ~e_result.ok
    /\ ~SomeEditUnresolved
    /\ SomeRangesOverlap
    /\ Len(e_edits) = 2
    /\ RequestRanges[1].start > RequestRanges[2].start
    /\ e_disk = e_content /\ e_content # <<>>

\* The path argument as the tool reads it: joined to the root when relative.
RequestedPath ==
    IF w_target.abs THEN w_target.comps ELSE w_root[1] \o w_target.comps

\* C17: a write-class tool run without allow_sensitive=true on a path whose
\* file name is .env, .env.*, tauri.conf.json, id_rsa or id_ed25519 (in any
\* case) or that has a component .git, .ssh or .gnupg fails and leaves the
\* file system as it was.
C17_SensitivePathDenied ==
    (w_pc = "ret" /\ w_root # None /\ w_allow # Some(TRUE)
     /\ is_sensitive_path(RequestedPath)) =>
        /\ ~w_result.ok
        /\ w_fs = w_fs0

\* The ids that finished get_or_create_session calls for user u returned.
GetOrCreateReturns(u) ==
    {svc_calls[c].ret.id :
        c \in {d \in Callers : /\ svc_calls[d].op = "get_or_create"
                                /\ svc_calls[d].pc = "ret"
                                /\ svc_calls[d].user = u
                                /\ svc_calls[d].ret.ok}}

\* The sessions get_or_create_session created in the store for user u.
CreatedFor(u) ==
    {id \in DOMAIN sessions :
        id # ClientId /\ sessions[id].user_id = Some(u)}

\* C18: as long as reset_session has not been called, all
\* get_or_create_session calls for one user return the same session id,
\* whatever their interleaving, and the store holds one session created for
\* that user.
C18_OneSessionPerUser ==
    resets = 0 =>
        \A u \in Users :
            /\ Cardinality(GetOrCreateReturns(u)) <= 1
            /\ Cardinality(CreatedFor(u)) <= 1
            /\ GetOrCreateReturns(u) # {} => Cardinality(CreatedFor(u)) = 1

\* The user whose reset_session call is the step being taken.
ResetOf(u) ==
    /\ resets' = resets + 1
    /\ last_reset'[u] # None
    /\ last_reset'[u][1].n = resets'

\* Caller c returns from get_or_create_session in this step, from a call
\* made after reset_session removed a cached session of its user.
ReturnsAfterReset(c) ==
    /\ svc_calls[c].op = "get_or_create"
    /\ svc_calls[c].pc # "ret" /\ svc_calls'[c].pc = "ret"
    /\ svc_calls'[c].ret.ok
    /\ svc_calls[c].after_reset
    /\ last_reset[svc_calls[c].user][1].cached # None

\* C19: reset_session(u) removes u's user -> session association and nothing
\* else: the store (u's former session and its messages included) and the
\* other users' associations stay as they were; and a get_or_create_session(u)
\* called after the reset returns a session id that is not the one cached
\* before the reset and that did not exist in the store at the reset.
C19_ResetClearsAssociationOnly ==
    [][/\ \A u \in Users :
            ResetOf(u) =>
                /\ sessions' = sessions
                /\ u \notin DOMAIN user_sessions'
                /\ \A v \in Users \ {u} :
                      /\ v \in DOMAIN user_sessions' <=>
                            v \in DOMAIN user_sessions
                      /\ v \in DOMAIN user_sessions =>
                            user_sessions'[v] = user_sessions[v]
       /\ \A c \in Callers :
            ReturnsAfterReset(c) =>
                LET seen == last_reset[svc_calls[c].user][1]
                IN /\ svc_calls'[c].ret.id # seen.cached[1]
                   /\ svc_calls'[c].ret.id \notin seen.known
                   /\ svc_calls'[c].ret.id \in DOMAIN sessions'
      ]_vars

\* Caller c takes a step of validate_or_create_session.
ValidateStep(c) ==
    /\ svc_calls[c].op = "validate_or_create"
    /\ svc_calls[c].pc \in {"check", "create"}
    /\ svc_calls'[c] # svc_calls[c]

C27_FinishIdempotent ==
    /\ Cardinality(Positions(s_events, "Done")) =
           IF FinishSignals(s_lines) >= 1 THEN 1 ELSE 0
    /\ \A d \in Positions(s_events, "Done") :
         \A t \in Positions(s_events, "ToolCall") : t < d

\* A finish_reason payload, then a tool-call chunk, then [DONE].
C27_Witness ==
    /\ Len(s_lines) = 3
    /\ s_lines[1].kind = "data" /\ FinishSignals(<<s_lines[1]>>) = 1
    /\ SingleChunk(s_lines[2]) /\ ChunkOf(s_lines[2]).name # ""
    /\ s_lines[3] = DoneLine
    /\ Cardinality(Positions(s_events, "Done")) = 1

\* The turns of the run before the one the last provider stream belongs to.
EarlierTurns == SubSeq(turns, 1, Len(turns) - 1)

\* The item is the error the agent sends when its provider stream fails.
IsStreamError(ev) == ev.type = "Err" /\ ev.text = "Stream error"

\* C29: when the provider stream yields an error, the streaming agent sends
\* one error item and ends: the item is the last one, the run holds no Done,
\* the tool calls received from that stream are not executed (the tool
\* events are those of the earlier turns) and the failed request is the
\* last one.
C29_StreamErrorEndsRun ==
    \A i \in DOMAIN a_events :
        IsStreamError(a_events[i]) =>
            /\ i = Len(a_events)
            /\ a_pc = "end"
            /\ Positions(a_events, "Err") = {i}
            /\ Positions(a_events, "Done") = {}
            /\ turns # <<>> /\ ~Last(turns).ok
            /\ Len(ToolEventsOf(a_events)) = 2 * SumCalls(EarlierTurns)
            /\ requests = Len(turns)

\* The second stream of a run fails after it delivered a tool call.
C29_Witness ==
    /\ streaming /\ a_pc = "end"
    /\ a_events # <<>> /\ IsStreamError(Last(a_events))
    /\ requests = 2 /\ requests < max_iterations + 1
    /\ Last(turns).calls >= 1
    /\ Len(ToolEventsOf(a_events)) >= 2

\* The item this step sends on the channel, when it sends exactly one.
SendsOne(type) ==
    /\ Len(a_events') = Len(a_events) + 1
    /\ Last(a_events').type = type

\* All tool calls of the finished turns have their ToolStart and ToolResult.
ToolsSettled == Len(ToolEventsOf(a_events)) = 2 * SumCalls(turns)

\* C30: within a run tools execute one at a time and never while a provider
\* stream is read: a ToolStart is sent only when every earlier ToolStart has
\* its ToolResult, a ToolResult answers the ToolStart sent last, a TextDelta
\* is sent only while no tool call of its own turn has started, and a
\* provider request is issued only after the last ToolResult of the turn
\* before it.
C30_ToolsRunSequentially ==
    [][/\ Len(a_events') <= Len(a_events) + 1
       /\ SendsOne("ToolStart") =>
            /\ Len(ToolEventsOf(a_events)) % 2 = 0
            /\ a_pc' = "running"
       /\ SendsOne("ToolResult") =>
            /\ ToolEventsOf(a_events) # <<>>
            /\ Last(ToolEventsOf(a_events)).type = "ToolStart"
            /\ Last(ToolEventsOf(a_events)).name = Last(a_events').name
            /\ a_pc = "running"
       /\ SendsOne("TextDelta") => ToolsSettled /\ a_pc = "stream"
       /\ requests' # requests =>
            /\ ToolsSettled
            /\ a_pc # "running"
            /\ ToolEventsOf(a_events) # <<>> =>
                  Last(ToolEventsOf(a_events)).type = "ToolResult"
      ]_vars

\* A turn with text and two tool calls has run both tools.
C30_Witness ==
    /\ streaming /\ a_pc = "iter" /\ iteration = 1
    /\ Len(ToolEventsOf(a_events)) = 4
    /\ Positions(a_events, "TextDelta") # {}

\* An edit_file or streaming_edit_file call with a project root has returned.
EditFileReturned ==
    /\ w_pc = "ret"
    /\ w_tool \in {"edit_file", "streaming_edit_file"}
    /\ w_root # None

\* The request passes resolve_and_validate_path and ensure_not_sensitive and
\* carries content.
RequestAccepted ==
    LET path == ResolveAndValidateIn(w_fs0, w_root[1], w_target) IN
    /\ path.ok
    /\ ensure_not_sensitive(path.path, UnwrapOrFalse(w_allow))
    /\ w_payload # "none"

\* Every proper prefix of the path is a directory of fs (links followed).
ParentsAreDirs(fs, comps) ==
    \A n \in 0..(Len(comps) - 1) :
        WalkIn(fs, <<>>, SubSeq(comps, 1, n)) \in fs.dirs

\* Some existing component of the path's parent is a regular file.
ParentThroughFile(fs, comps) ==
    \E n \in 1..(Len(comps) - 1) :
        WalkIn(fs, <<>>, SubSeq(comps, 1, n)) \in DOMAIN fs.files

\* create on an existing path: the call fails and nothing is changed.
CreateOnExistingFails ==
    (EditFileReturned /\ w_mode = "create"
     /\ ExistsIn(w_fs0, RequestedPath))
        => ~w_result.ok /\ w_fs = w_fs0

\* The overwrite succeeded: the parents are directories and the file holds
\* the supplied content; every file elsewhere is as it was.
OverwriteDone ==
    /\ w_result.ok
    /\ ParentsAreDirs(w_fs, RequestedPath)
    /\ WalkIn(w_fs, <<>>, RequestedPath) \in DOMAIN w_fs.files
    /\ w_fs.files[WalkIn(w_fs, <<>>, RequestedPath)] = "new"
    /\ \A loc \in DOMAIN w_fs0.files \ {WalkIn(w_fs, <<>>, RequestedPath)} :
          loc \in DOMAIN w_fs.files /\ w_fs.files[loc] = w_fs0.files[loc]

\* C24 as stated: edit_file with mode=create on an existing path fails and
\* changes nothing; mode=overwrite on a missing path (of an accepted request)
\* succeeds, creates the missing parents and leaves the supplied content.
C24_AsStated ==
    /\ CreateOnExistingFails
    /\ (EditFileReturned /\ w_mode = "overwrite" /\ RequestAccepted
        /\ ~ExistsIn(w_fs0, RequestedPath)) => OverwriteDone

\* The path has no ".." component.
PlainPath(comps) == \A i \in DOMAIN comps : comps[i] # ParentDir

\* C24: the same, for an overwrite of a path without ".." whose parent path
\* does not run through a regular file; when it does, the call fails and
\* changes nothing.
C24_CreateFailsOverwriteCreates ==
    /\ CreateOnExistingFails
    /\ (EditFileReturned /\ w_mode = "overwrite" /\ RequestAccepted
        /\ ~ExistsIn(w_fs0, RequestedPath) /\ PlainPath(RequestedPath)) =>
          IF ParentThroughFile(w_fs0, RequestedPath)
          THEN ~w_result.ok /\ w_fs = w_fs0
          ELSE OverwriteDone

\* An overwrite of new/new has created the directory and the file.
C24_Witness ==
    /\ EditFileReturned /\ w_mode = "overwrite" /\ RequestAccepted
    /\ w_target.comps = <<"new", "new">> /\ ~w_target.abs
    /\ <<"proj", "new">> \notin w_fs0.dirs
    /\ <<"proj", "new">> \in w_fs.dirs
    /\ w_result.ok
    /\ w_fs.files[<<"proj", "new", "new">>] = "new"

\* C25: write_file is idempotent: for every call that write_file accepts,
\* running the same call again returns the same result and leaves the file
\* system as the first run left it.
C25_WriteFileIdempotent ==
    (w_pc = "ret2" /\ w_result.ok) =>
        /\ w_again.ok
        /\ w_again.fs = w_result.fs
        /\ w_fs = w_result.fs
        /\ w_again = w_result

\* The arguments of the returned read_file call with their defaults.
ReadStart == UnwrapOr(r_start, 1)
ReadEnd == UnwrapOr(r_end, TotalLines(r_content))

\* C23: read_file succeeds exactly when 1 <= start_line <= end_line <=
\* total_lines (start_line defaulting to 1, end_line to total_lines), then
\* returns the end_line - start_line + 1 lines of that inclusive 1-based
\* range, and never indexes outside the line list.
C23_ReadFileLineRange ==
    r_pc = "ret" =>
        /\ ~r_result.panic
        /\ r_result.ok <=>
              (1 <= ReadStart /\ ReadStart <= ReadEnd
               /\ ReadEnd <= TotalLines(r_content))
        /\ r_result.ok =>
              /\ Len(r_result.lines) = ReadEnd - ReadStart + 1
              /\ \A k \in 1..Len(r_result.lines) :
                    r_result.lines[k] =
                        FileLines(r_content)[ReadStart + k - 1]
              /\ r_result.total_lines = Len(FileLines(r_content))

\* start_line = end_line = total_lines on a file of two lines returned its
\* last line.
C23_Witness ==
    /\ r_pc = "ret"
    /\ TotalLines(r_content) = 2
    /\ r_start = Some(2) /\ r_end = Some(2)
    /\ r_result.ok
    /\ r_result.lines = <<FileLines(r_content)[2]>>

\* min(cursor_pos, content.len()).
ClampedCursor ==
    IF ic_cursor <= Len(Utf8Bytes(ic_content)) THEN ic_cursor
    ELSE Len(Utf8Bytes(ic_content))

\* C26: for every content and cursor_pos, get_inline_completion (called
\* with an API key) builds its prompt with `before` the prefix of content up
\* to min(cursor_pos, len) and `after` the rest, so that before followed by
\* after is content.
C26_CursorSplit ==
    (ic_pc = "ret" /\ ic_api_key # "") =>
        /\ ic_result.kind = "prompt"
        /\ ic_result.before = SubSeq(Utf8Bytes(ic_content), 1, ClampedCursor)
        /\ ic_result.after =
              SubSeq(Utf8Bytes(ic_content), ClampedCursor + 1,
                     Len(Utf8Bytes(ic_content)))
        /\ ic_result.before \o ic_result.after = Utf8Bytes(ic_content)

\* The same for a cursor_pos on a character boundary or past the end.
C26_SplitOnBoundary ==
    IsCharBoundary(Utf8Bytes(ic_content), ClampedCursor) => C26_CursorSplit

\* C22: list_sessions reports, for every session, the name that the latest
\* successful rename_session gave it, or the name it was created with when
\* it has not been renamed; a created session is listed under the returned
\* id.
C22_ListReportsGivenNames ==
    (chat_ret.op = "list" /\ chat_ret.ok) =>
        \A id \in DOMAIN chat_asked :
            /\ id \in DOMAIN chat_ret.list
            /\ chat_ret.list[id] = chat_asked[id]

\* The part about create_session alone: a session that was created is
\* listed under the id create returned.
C22_CreatedAreListed ==
    (chat_ret.op = "list" /\ chat_ret.ok) =>
        DOMAIN chat_ret.list = DOMAIN chat_asked

BareFinish(line) ==
    line = DoneLine \/ line = DataLine("{stop}", <<FinishChoice>>)

\* The line is a payload with text only.
TextOnly(line) == line = DataLine("{text}", <<TextChoice("Hi", FALSE)>>)

\* The line is a payload with one tool-call chunk that names its function.
NamedChunk(line) == SingleChunk(line) /\ ChunkOf(line).name # ""

\* The first provider stream was [DONE], one line of content, a finish
\* signal, and has ended; the agent's turn on it is over.
AfterPrematureDone ==
    /\ Len(s_lines) = 3 /\ s_pc = "closed"
    /\ s_lines[1] = DoneLine
    /\ TextOnly(s_lines[2]) \/ NamedChunk(s_lines[2])
    /\ BareFinish(s_lines[3])
    /\ turns # <<>>

\* The text after a premature [DONE] is forwarded and stored.
TextAfterPrematureDoneKept ==
    (AfterPrematureDone /\ TextOnly(s_lines[2])) =>
        /\ \E i \in DOMAIN a_events : a_events[i] = AgTextDelta("Hi")
        /\ \E i \in DOMAIN messages :
              messages[i] = MessageAssistantText("Hi")

\* The tool call after a premature [DONE] is collected, and executed by the
\* time the run has ended.
CallAfterPrematureDoneRun ==
    (AfterPrematureDone /\ NamedChunk(s_lines[2])) =>
        /\ turns[1].calls = 1
        /\ a_pc = "end" =>
              \E i \in DOMAIN a_events :
                  /\ a_events[i].type = "ToolStart"
                  /\ a_events[i].name = ChunkOf(s_lines[2]).name

\* C28: when a provider stream emits [DONE] before any content and then
\* content followed by a finish signal, the agent takes that content as the
\* turn's output: the text is forwarded and stored, the tool calls are
\* collected and executed.
C28_PrematureDoneTolerated ==
    TextAfterPrematureDoneKept /\ CallAfterPrematureDoneRun

\* The greatest character boundary of the content that is <= cursor_pos.
FloorBoundary ==
    CHOOSE b \in 0..ClampedCursor :
        /\ IsCharBoundary(Utf8Bytes(ic_content), b)
        /\ \A c \in (b + 1)..ClampedCursor :
              ~IsCharBoundary(Utf8Bytes(ic_content), c)

\* The cursor is inside the content, in the middle of a multi-byte character.
CursorInsideChar ==
    /\ ic_cursor <= Len(Utf8Bytes(ic_content))
    /\ ~IsCharBoundary(Utf8Bytes(ic_content), ic_cursor)

\* C36: when cursor_pos <= len falls inside a multi-byte character,
\* get_inline_completion splits the content at the greatest character
\* boundary <= cursor_pos and goes on to build its prompt; it does not
\* abort or panic.
C36_SnapsToBoundary ==
    (ic_pc = "ret" /\ ic_api_key # "" /\ CursorInsideChar) =>
        /\ ic_result.kind = "prompt"
        /\ ic_result.before = SubSeq(Utf8Bytes(ic_content), 1, FloorBoundary)
        /\ ic_result.after =
              SubSeq(Utf8Bytes(ic_content), FloorBoundary + 1,
                     Len(Utf8Bytes(ic_content)))

\* What the code does in that case: the slice panics.
C36_InsideCharPanics ==
    (ic_pc = "ret" /\ ic_api_key # "" /\ CursorInsideChar) =>
        ic_result = InlineEnded("panic")

\* The tool-call ids that a line of the stream carries, in its delta chunks
\* and in its message.
IdsOfLine(line) ==
    UNION {{c.id : c \in {ch.delta.tool_calls[k] :
                             k \in DOMAIN ch.delta.tool_calls}}
           \cup {c.id : c \in {ch.message.tool_calls[k] :
                                  k \in DOMAIN ch.message.tool_calls}} :
           ch \in {line.choices[n] : n \in DOMAIN line.choices}}

\* The line of the stream on which the tool call `id` first appeared.
FirstAppearance(id) ==
    CHOOSE n \in DOMAIN s_lines :
        /\ id \in IdsOfLine(s_lines[n])
        /\ \A m \in 1..(n - 1) : id \notin IdsOfLine(s_lines[m])

\* C37: the ToolCall events flushed at finish come in the order in which
\* the tool calls first appeared in the stream: of two emitted calls with
\* different ids, the one emitted first appeared first.
C37_FlushInArrivalOrder ==
    \A i, j \in Positions(s_events, "ToolCall") :
        (i < j /\ s_events[i].id # "" /\ s_events[j].id # ""
               /\ s_events[i].id # s_events[j].id) =>
            FirstAppearance(s_events[i].id) < FirstAppearance(s_events[j].id)

\* The calls themselves do not depend on the run: whatever the order, the
\* same set of ToolCall events is flushed.
C37_SameCallsAnyOrder ==
    \A o1, o2 \in IterationOrders(accumulators) :
        {FlushedCalls(accumulators, o1)[k] :
            k \in DOMAIN FlushedCalls(accumulators, o1)}
        = {FlushedCalls(accumulators, o2)[k] :
            k \in DOMAIN FlushedCalls(accumulators, o2)}

\* The names of the tool calls that a line of the stream carries with a
\* non-empty function name.
NamesOfLine(line) ==
    UNION {{c.name : c \in {ch.delta.tool_calls[k] :
                               k \in DOMAIN ch.delta.tool_calls}}
           \cup {c.name : c \in {ch.message.tool_calls[k] :
                                    k \in DOMAIN ch.message.tool_calls}} :
           ch \in {line.choices[n] : n \in DOMAIN line.choices}} \ {""}

NamesReceived == UNION {NamesOfLine(s_lines[n]) : n \in DOMAIN s_lines}

NamesEmitted == {s_events[i].name : i \in Positions(s_events, "ToolCall")}

\* C38: when the parser's event stream has ended, every tool call for which
\* a chunk with a non-empty function name was received has been emitted as
\* a ToolCall event, also when the byte stream ended without a
\* finish_reason and without [DONE].
C38_NoToolCallDropped ==
    s_pc = "closed" => NamesReceived \subseteq NamesEmitted

\* What the code does: a stream that ends without any finish signal emits
\* no ToolCall at all.
C38_OnlyFinishFlushes ==
    ~saw_finish => NamesEmitted = {}

\* The concatenation, in order, of the TextDelta payloads forwarded since the
\* last ToolResult, that is during the current iteration.
RECURSIVE TextSince(_)
TextSince(evs) ==
    IF evs = <<>> \/ Last(evs).type = "ToolResult" THEN ""
    ELSE TextSince(SubSeq(evs, 1, Len(evs) - 1))
         \o (IF Last(evs).type = "TextDelta" THEN Last(evs).text ELSE "")

\* The step that closes an iteration's provider stream normally.
IterationCloses == turns' # turns /\ Last(turns').ok

\* C33: when an iteration of a streaming run closes, the assistant message
\* appended for it carries the in-order concatenation of the TextDelta
\* payloads forwarded during that iteration; without tool calls the run
\* ends with Done whose final_text is that concatenation, and with neither
\* text nor tool calls no assistant message is appended.
C33_AssistantTextIsDeltas ==
    [][IterationCloses =>
        LET txt == TextSince(a_events) IN
        /\ (tool_calls = <<>> /\ txt = "") => messages' = messages
        /\ ~(tool_calls = <<>> /\ txt = "") =>
              /\ Len(messages') = Len(messages) + 1
              /\ SubSeq(messages', 1, Len(messages)) = messages
              /\ Last(messages').role = "assistant"
              /\ MessageText(Last(messages')) = txt
        /\ tool_calls = <<>> => Last(a_events') = AgDone(txt, messages')
        /\ tool_calls # <<>> => a_events' = a_events]_vars

\* A second iteration that streamed "Hi" then "!" and ended the run.
C33_Witness ==
    /\ a_pc = "end" /\ iteration = 1
    /\ Last(a_events).type = "Done" /\ Last(a_events).text = "Hi!"
    /\ Last(messages) = MessageAssistantText("Hi!")
    /\ Len(turns) = 2

\* C34: run and run_streaming given the same turns end the same way, and on
\* success AgentResult.messages equals Done.messages and AgentResult.text
\* equals Done.final_text.
C34_RunMatchesStreaming ==
    cmp_pc = "ret" =>
        /\ cmp_run.ok = cmp_stream.ok
        /\ cmp_run.ok =>
              /\ cmp_run.messages = cmp_stream.messages
              /\ cmp_run.text = cmp_stream.text

\* A turn that has text or tool calls, and no empty tool_calls list.
PlainTurn(turn) ==
    /\ turn.calls # Some(<<>>)
    /\ turn.text # "" \/ turn.calls # None

\* The same when every turn has text or calls and none has an empty list.
C34_MatchOnPlainTurns ==
    (\A n \in DOMAIN cmp_script : PlainTurn(cmp_script[n])) =>
        C34_RunMatchesStreaming

\* The offsets at which a line of the text starts: 0 and the offset after
\* every line feed.
LineStartSet(text) == {0} \cup {j \in 1..Len(text) : text[j] = "LF"}

LineCount(text) == Cardinality(LineStartSet(text))

\* The start of line n, counted from 0.
NthLineStart(text, n) ==
    CHOOSE s \in LineStartSet(text) :
        Cardinality({t \in LineStartSet(text) : t < s}) = n

\* The window of k lines from line i: the range from the start of its first
\* line to the start of the line after its last line, or the end of the
\* text, and its lines without the line feed that ends the last one.
WindowRange(text, i, k) ==
    [start |-> NthLineStart(text, i),
     end |-> IF i + k < LineCount(text) THEN NthLineStart(text, i + k)
             ELSE Len(text)]

WindowText(text, i, k) ==
    SubSeq(text, WindowRange(text, i, k).start + 1,
           IF i + k < LineCount(text) THEN WindowRange(text, i, k).end - 1
           ELSE Len(text))

\* The windows whose normalised form is the normalised old_text.
MatchingWindows(text, old_text) ==
    {i \in 0..(LineCount(text) - LineCount(old_text)) :
        normalize_text(WindowText(text, i, LineCount(old_text)))
            = normalize_text(old_text)}

\* C35: an edit whose old_text has no exact occurrence resolves iff its
\* normalised old_text is not empty and exactly one window of as many
\* lines as old_text has normalises to it; the resolved range is then that
\* window's range, and an unresolved edit makes the tool fail.
C35_FuzzyMatchOneWindow ==
    e_pc = "ret" =>
        \A k \in DOMAIN e_edits :
            LET old_text == e_edits[k].old_text
                lines_old == LineCount(old_text)
                windows == MatchingWindows(e_content, old_text)
                range == ResolveOne(e_content, e_edits, k)
            IN Occurrences(e_content, old_text) = {} =>
                /\ range.ok <=>
                      /\ normalize_text(old_text) # <<>>
                      /\ Cardinality(windows) = 1
                /\ range.ok =>
                      \E i \in windows :
                         /\ range.start
                               = WindowRange(e_content, i, lines_old).start
                         /\ range.end
                               = WindowRange(e_content, i, lines_old).end
                /\ ~range.ok => ~e_result.ok
                /\ e_result.ok =>
                      /\ e_result.resolved[k].start = range.start
                      /\ e_result.resolved[k].end = range.end

\* An accepted edit with the two-line old_text "a LF" on the content
\* "a SP LF": no exact occurrence, one window of two lines, replaced up to
\* the end of the file.
C35_Witness ==
    /\ e_pc = "ret" /\ e_result.ok
    /\ e_content = <<"a", "SP", "LF">>
    /\ e_edits = <<EditOperation(<<"a", "LF">>, <<>>)>>
    /\ Occurrences(e_content, <<"a", "LF">>) = {}
    /\ MatchingWindows(e_content, <<"a", "LF">>) = {0}
    /\ e_result.resolved[1].start = 0 /\ e_result.resolved[1].end = 3
    /\ e_disk = <<>>

\* One call executed alone on the messages `msgs`.
CallAlone(msgs, t, op) ==
    CASE op = "append" -> msgs \o ArgsOf(t, op)
      [] op = "append_many" -> msgs \o ArgsOf(t, op)
      [] op = "replace_messages" -> ArgsOf(t, op)
      [] op = "clear" -> <<>>

\* The calls of the tasks of `order` executed one at a time, in that order.
RECURSIVE OneAtATime(_, _)
OneAtATime(msgs, order) ==
    IF order = <<>> THEN msgs
    ELSE OneAtATime(CallAlone(msgs, Head(order), lk_tasks[Head(order)].op),
                    Tail(order))

AllReturned == \A t \in LockTasks : lk_tasks # <<>> /\ lk_tasks[t].pc = "done"

\* The positions of the messages of task t in the stored list.
PositionsBy(t) == {i \in DOMAIN lk_msgs : lk_msgs[i].by = t}

\* C32: once the concurrent append / append_many / replace_messages / clear
\* calls on a session have returned, its message list is the result of
\* executing the calls one at a time in some order (the order in which they
\* took the lock); no stored message appears twice, and the messages of an
\* append_many batch that are stored are all there, next to each other and
\* in order.
C32_StoreCallsAtomic ==
    AllReturned =>
        /\ lk_msgs = OneAtATime(StoredBefore, lk_order)
        /\ \A i, j \in DOMAIN lk_msgs : lk_msgs[i] = lk_msgs[j] => i = j
        /\ \A t \in LockTasks :
             (lk_tasks[t].op = "append_many" /\ PositionsBy(t) # {}) =>
                \E first \in DOMAIN lk_msgs :
                    /\ PositionsBy(t) = first..(first + MaxBatch - 1)
                    /\ \A n \in 1..MaxBatch :
                          lk_msgs[first + n - 1] = TaskMessage(t, n)

\* Two batches and an append, all stored: five messages after the one that
\* was there.
C32_Witness ==
    /\ AllReturned
    /\ lk_tasks["t1"].op = "append_many" /\ lk_tasks["t2"].op = "append_many"
    /\ lk_tasks["t3"].op = "append"
    /\ lk_order = <<"t2", "t3", "t1">>
    /\ Len(lk_msgs) = 1 + 2 * MaxBatch + 1

\* The ids that create_session returned and delete_session removed.
DeletedIds == {id \in 1..chat_uuid : id \notin DOMAIN chat_store}

\* C39: session state lives in one store: list_sessions lists the created
\* sessions that were not deleted, and once delete_session(id) has returned
\* ok nothing of the session is kept: no store holds id, and a later
\* ask_stream_with_session(id) starts from a history without any turn made
\* before the delete.
C39_SessionsInOneStore ==
    /\ (chat_ret.op = "list" /\ chat_ret.ok) =>
           DOMAIN chat_ret.list = DOMAIN chat_store
    /\ \A id \in DeletedIds \cap DOMAIN ai_store :
           \A n \in DOMAIN ai_store[id] : ~ai_store[id][n].listed
    /\ ask_ret.after_delete =>
           \A n \in DOMAIN ask_ret.history : ~ask_ret.history[n].listed

\* The part on the session commands alone holds: a created session is
\* listed until it is deleted.
C39_ListedUntilDeleted ==
    (chat_ret.op = "list" /\ chat_ret.ok) =>
        DOMAIN chat_ret.list = (1..chat_uuid) \ DeletedIds

\* A turn on a deleted session that found the turns made before the delete.
C39_HistorySurvivesDelete ==
    /\ ask_ret.after_delete
    /\ ask_ret.history = <<[author |-> "user", listed |-> TRUE],
                            [author |-> "model", listed |-> TRUE]>>

\* The channel is full and the task is suspended in a send.
FacingFullChannel == SendPending /\ Len(ch_queue) = ChannelCapacity

\* C31: the channel never holds more than its capacity of unconsumed
\* events; a task suspended in a send on a full channel takes no step (no
\* provider read, no tool run) until the consumer takes an event; and what
\* the consumer has received followed by what the channel holds is what the
\* task has sent, in the order it sent it, each event once.
C31_BackPressureFifo ==
    /\ [](/\ Len(ch_queue) <= ChannelCapacity
          /\ ch_received \o ch_queue = SubSeq(a_events, 1, ch_sent))
    /\ [][FacingFullChannel =>
             /\ UNCHANGED agentVars
             /\ ch_sent' = ch_sent
             /\ ch_received' = Append(ch_received, Head(ch_queue))]_vars

\* The task waits with a third event while the channel holds two and the
\* consumer has taken none.
C31_Witness ==
    /\ FacingFullChannel
    /\ ch_received = <<>>
    /\ ch_sent = ChannelCapacity
    /\ a_pc # "end"

\* No didOpen for the path is on the wire between positions i and j.
NoOpenBetween(path, i, j) ==
    \A n \in (i + 1)..(j - 1) :
        ~(lsp_wire[n].method = "textDocument/didOpen"
          /\ lsp_wire[n].path = path)

\* C40: for each path the didChange notifications reach the server in
\* strictly increasing version order (so no two of them between two
\* didOpen carry the same version), and a didOpen carries version 1.
C40_VersionsIncreaseOnWire ==
    /\ \A i, j \in DOMAIN lsp_wire :
         (/\ i < j
          /\ lsp_wire[i].method = "textDocument/didChange"
          /\ lsp_wire[j].method = "textDocument/didChange"
          /\ lsp_wire[i].path = lsp_wire[j].path
          /\ NoOpenBetween(lsp_wire[i].path, i, j)) =>
             lsp_wire[i].version < lsp_wire[j].version
    /\ \A n \in DOMAIN lsp_wire :
         lsp_wire[n].method = "textDocument/didOpen" =>
            lsp_wire[n].version = 1

NeverOpened ==
    \A c \in LspTasks : lsp_calls # <<>> => lsp_calls[c].op # "did_open"

\* What the lock gives: as long as no did_open was called, the versions
\* handed to the did_change calls of a path are all different.
C40_VersionsDistinctWithoutOpen ==
    (NeverOpened /\ \A n \in DOMAIN lsp_wire :
                       lsp_wire[n].method = "textDocument/didChange") =>
        \A i, j \in DOMAIN lsp_wire :
            (lsp_wire[i].path = lsp_wire[j].path
             /\ lsp_wire[i].version = lsp_wire[j].version) => i = j

\* Two didChange of one path with the same version and no didOpen between.
C40_SameVersionTwice ==
    \E i, j \in DOMAIN lsp_wire :
        /\ i < j
        /\ lsp_wire[i].method = "textDocument/didChange"
        /\ lsp_wire[j] = lsp_wire[i]
        /\ NoOpenBetween(lsp_wire[i].path, i, j)

=============================================================================
